---- MODULE Spec2Model ----
(***************************************************************************)
(* Model of the Aruba Central API database ingestion pipeline:             *)
(*   - the request validators of the validation utilities,                 *)
(*   - the transactional batch import (importCollections) with its         *)
(*     partial-failure threshold, rollback and handle release.             *)
(***************************************************************************)
EXTENDS Integers, Sequences, FiniteSets, TLC

(***************************************************************************)
(* Bounds of the model.                                                    *)
(***************************************************************************)
MaxItems == 3
MaxImports == 2

(***************************************************************************)
(* JavaScript values.  A value is a record tagged with its typeof class.   *)
(***************************************************************************)
Undefined == [t |-> "undefined"]
Str(s) == [t |-> "string", s |-> s]
Obj(f) == [t |-> "object", f |-> f]
Null == [t |-> "null"]
Num(n) == [t |-> "number", n |-> n]
Arr(a) == [t |-> "array", a |-> a]
Bool(b) == [t |-> "boolean", b |-> b]

\* The numbers that are not finite; NaN is falsy like 0, Infinity is not.
NaN == [t |-> "number", n |-> 0, finite |-> FALSE]
Infinity == [t |-> "number", n |-> 1, finite |-> FALSE]

\* Number.isFinite(v) of a number.
IsFinite(v) == "finite" \notin DOMAIN v

\* `typeof value`: null and arrays are objects.
TypeOf(v) == IF v.t \in {"null", "array"} THEN "object" ELSE v.t

\* JavaScript falsiness, as tested by `!value`.
Falsy(v) ==
  \/ v.t = "undefined"
  \/ v.t = "null"
  \/ (v.t = "string" /\ v.s = "")
  \/ (v.t = "number" /\ v.n = 0)
  \/ (v.t = "boolean" /\ ~v.b)
  \/ (v.t = "boolean" /\ ~v.b)

\* Property read `obj.k`: a missing property reads as undefined.
Get(o, k) == IF k \in DOMAIN o.f THEN o.f[k] ELSE Undefined

(***************************************************************************)
(* String helpers.                                                         *)
(***************************************************************************)
RECURSIVE IndexFrom(_, _, _)
\* Least i >= from with sub occurring in s at i, or 0 when there is none.
IndexFrom(s, sub, from) ==
  IF from + Len(sub) - 1 > Len(s) THEN 0
  ELSE IF SubSeq(s, from, from + Len(sub) - 1) = sub THEN from
  ELSE IndexFrom(s, sub, from + 1)

IndexOf(s, sub) == IndexFrom(s, sub, 1)

StartsWith(s, p) == Len(s) >= Len(p) /\ SubSeq(s, 1, Len(p)) = p

LowerLetters == "abcdefghijklmnopqrstuvwxyz"
UpperLetters == "ABCDEFGHIJKLMNOPQRSTUVWXYZ"
Digits == "0123456789"

UpperChar(c) ==
  LET i == IndexOf(LowerLetters, c)
  IN IF i = 0 THEN c ELSE SubSeq(UpperLetters, i, i)

LowerChar(c) ==
  LET i == IndexOf(UpperLetters, c)
  IN IF i = 0 THEN c ELSE SubSeq(LowerLetters, i, i)

RECURSIVE ToUpperCase(_)
ToUpperCase(s) ==
  IF s = "" THEN ""
  ELSE UpperChar(SubSeq(s, 1, 1)) \o ToUpperCase(SubSeq(s, 2, Len(s)))

RECURSIVE ToLowerCase(_)
ToLowerCase(s) ==
  IF s = "" THEN ""
  ELSE LowerChar(SubSeq(s, 1, 1)) \o ToLowerCase(SubSeq(s, 2, Len(s)))

IsLetter(c) == IndexOf(LowerLetters, c) > 0 \/ IndexOf(UpperLetters, c) > 0
IsDigit(c) == IndexOf(Digits, c) > 0

RECURSIVE AllChars(_, _)
\* Every character of s is one of the characters of the string allowed.
AllChars(s, allowed) ==
  \/ s = ""
  \/ /\ IndexOf(allowed, SubSeq(s, 1, 1)) > 0
     /\ AllChars(SubSeq(s, 2, Len(s)), allowed)

(***************************************************************************)
(* new URL(url): does the string parse as an absolute URL?                 *)
(* A scheme (letter, then letters, digits, '+', '-', '.') followed by ':'; *)
(* the special schemes need a non-empty host without blanks.               *)
(***************************************************************************)
SpecialSchemes == {"http", "https", "ftp", "ws", "wss"}

RECURSIVE StripSlashes(_)
StripSlashes(s) ==
  IF s # "" /\ SubSeq(s, 1, 1) \in {"/", "\\"}
  THEN StripSlashes(SubSeq(s, 2, Len(s)))
  ELSE s

RECURSIVE HostOf(_)
\* The authority part: the characters up to the first '/', '?' or '#'.
HostOf(s) ==
  IF s = "" \/ SubSeq(s, 1, 1) \in {"/", "?", "#"} THEN ""
  ELSE SubSeq(s, 1, 1) \o HostOf(SubSeq(s, 2, Len(s)))

UrlParses(url) ==
  LET c == IndexOf(url, ":")
      scheme == SubSeq(url, 1, c - 1)
      rest == SubSeq(url, c + 1, Len(url))
      host == HostOf(StripSlashes(rest))
  IN /\ c > 1
     /\ IsLetter(SubSeq(scheme, 1, 1))
     /\ AllChars(scheme, LowerLetters \o UpperLetters \o Digits \o "+-.")
     /\ (ToLowerCase(scheme) \in SpecialSchemes
           => host # "" /\ IndexOf(host, " ") = 0)

(***************************************************************************)
(* JSON.parse(value): does the string parse as JSON?  The recogniser covers*)
(* the literals, unsigned integers, strings without escapes and the empty  *)
(* array and object.                                                       *)
(***************************************************************************)
JsonParses(s) ==
  \/ s \in {"true", "false", "null", "{}", "[]"}
  \/ (s # "" /\ AllChars(s, Digits) /\ (Len(s) = 1 \/ SubSeq(s, 1, 1) # "0"))
  \/ /\ Len(s) >= 2
     /\ SubSeq(s, 1, 1) = "\""
     /\ SubSeq(s, Len(s), Len(s)) = "\""
     /\ IndexOf(SubSeq(s, 2, Len(s) - 1), "\"") = 0
     /\ IndexOf(SubSeq(s, 2, Len(s) - 1), "\\") = 0

(***************************************************************************)
(* The validators.  A ValidationResult is [isValid, errors].               *)
(***************************************************************************)
\* Variant: isValid does not look at the errors.
Result_AlwaysValid(errors) == [isValid |-> TRUE, errors |-> errors]

Result(errors) == [isValid |-> Len(errors) = 0, errors |-> errors]

validMethods == <<"GET", "POST", "PUT", "DELETE", "PATCH", "HEAD", "OPTIONS">>

Includes(seq, x) == \E i \in 1..Len(seq) : seq[i] = x

\* Variant: the whitelist test without toUpperCase().
validateHttpMethod_CaseSensitive(method) ==
  Result(
    IF Falsy(method) THEN <<"HTTP method is required">>
    ELSE IF method.t # "string" THEN <<"HTTP method must be a string">>
    ELSE IF ~Includes(validMethods, method.s)
      THEN <<"HTTP method must be one of: GET, POST, PUT, DELETE, PATCH, HEAD, OPTIONS">>
    ELSE <<>>)

validateHttpMethod(method) ==
  Result(
    IF Falsy(method) THEN <<"HTTP method is required">>
    ELSE IF method.t # "string" THEN <<"HTTP method must be a string">>
    ELSE IF ~Includes(validMethods, ToUpperCase(method.s))
      THEN <<"HTTP method must be one of: GET, POST, PUT, DELETE, PATCH, HEAD, OPTIONS">>
    ELSE <<>>)

MaxUrlLength == 2000

\* Variant: no check of the https:// prefix.
validateUrl_AnyScheme(url) ==
  Result(
    IF Falsy(url) THEN <<"URL is required">>
    ELSE IF url.t # "string" THEN <<"URL must be a string">>
    ELSE IF ~UrlParses(url.s) THEN <<"URL format is invalid">>
    ELSE IF Len(url.s) > MaxUrlLength
      THEN <<"URL is too long (max 2000 characters)">>
    ELSE <<>>)

validateUrl(url) ==
  Result(
    IF Falsy(url) THEN <<"URL is required">>
    ELSE IF url.t # "string" THEN <<"URL must be a string">>
    ELSE IF ~UrlParses(url.s) THEN <<"URL format is invalid">>
    ELSE (IF ~StartsWith(url.s, "https://")
            THEN <<"URL must use HTTPS protocol">> ELSE <<>>)
         \o (IF Len(url.s) > MaxUrlLength
               THEN <<"URL is too long (max 2000 characters)">> ELSE <<>>))

validateStringLength(value, field, minLength, maxLength) ==
  Result(
    IF value.t # "string" THEN <<field \o " must be a string">>
    ELSE (IF Len(value.s) < minLength
            THEN <<field \o " must be at least " \o ToString(minLength)
                     \o " characters long">>
            ELSE <<>>)
         \o (IF Len(value.s) > maxLength
               THEN <<field \o " must not exceed " \o ToString(maxLength)
                        \o " characters">>
               ELSE <<>>))

validateJson(value, field) ==
  IF Falsy(value) THEN [isValid |-> TRUE, errors |-> <<>>]
  ELSE Result(
    IF value.t # "string" THEN <<field \o " must be a string">>
    ELSE IF ~JsonParses(value.s) THEN <<field \o " must be valid JSON">>
    ELSE <<>>)

AuthTypes == <<Str("bearer"), Str("apikey"), Str("basic"), Str("oauth2")>>

validateAuthConfig(authConfig) ==
  IF Falsy(authConfig) THEN [isValid |-> TRUE, errors |-> <<>>]
  ELSE IF authConfig.t # "object"
    THEN [isValid |-> FALSE, errors |-> <<"Auth config must be an object">>]
  ELSE
    LET type == Get(authConfig, "type")
        token == Get(authConfig, "token")
        key == Get(authConfig, "key")
        value == Get(authConfig, "value")
    IN Result(
         (IF Falsy(type) THEN <<"Auth type is required">>
          ELSE IF ~Includes(AuthTypes, type)
            THEN <<"Auth type must be one of: bearer, apikey, basic, oauth2">>
          ELSE <<>>)
         \o (IF type = Str("bearer") /\ Falsy(token)
               THEN <<"Bearer token is required for bearer auth">> ELSE <<>>)
         \o (IF type = Str("apikey") /\ (Falsy(key) \/ Falsy(value))
               THEN <<"API key and value are required for apikey auth">>
               ELSE <<>>))

\* `if (!v.isValid) errors.push(...v.errors)`
PushIfInvalid(v) == IF ~v.isValid THEN v.errors ELSE <<>>

MaxNameLength == 200
MaxDescriptionLength == 1000

\* Variant: isValid computed as `errors.length >= 0`.
validateApiRequest_AlwaysValid(request) ==
  [isValid |-> TRUE, errors |-> <<>>]

\* Variant: validation stops at the first field that has an error.
validateApiRequest_FirstField(request) ==
  LET name == Get(request, "name")
      method == Get(request, "method")
      url == Get(request, "url")
      byField ==
        << IF Falsy(name) THEN <<"API name is required">>
           ELSE PushIfInvalid(validateStringLength(name, "name", 1,
                                                   MaxNameLength)),
           IF Falsy(method) THEN <<"HTTP method is required">>
           ELSE PushIfInvalid(validateHttpMethod(method)),
           IF Falsy(url) THEN <<"URL is required">>
           ELSE PushIfInvalid(validateUrl(url)),
           IF ~Falsy(Get(request, "authConfig"))
             THEN PushIfInvalid(validateAuthConfig(Get(request, "authConfig")))
           ELSE <<>> >>
      bad == { k \in 1..Len(byField) : byField[k] # <<>> }
  IN Result(IF bad = {} THEN <<>>
            ELSE byField[CHOOSE k \in bad : \A m \in bad : k <= m])

validateApiRequest(request) ==
  LET name == Get(request, "name")
      method == Get(request, "method")
      url == Get(request, "url")
      description == Get(request, "description")
      authConfig == Get(request, "authConfig")
      headers == Get(request, "headers")
      body == Get(request, "body")
  IN Result(
       (IF Falsy(name) THEN <<"API name is required">>
        ELSE PushIfInvalid(validateStringLength(name, "name", 1, MaxNameLength)))
       \o (IF Falsy(method) THEN <<"HTTP method is required">>
           ELSE PushIfInvalid(validateHttpMethod(method)))
       \o (IF Falsy(url) THEN <<"URL is required">>
           ELSE PushIfInvalid(validateUrl(url)))
       \o (IF ~Falsy(description)
             THEN PushIfInvalid(validateStringLength(description, "description",
                                                     0, MaxDescriptionLength))
             ELSE <<>>)
       \o (IF ~Falsy(authConfig)
             THEN PushIfInvalid(validateAuthConfig(authConfig)) ELSE <<>>)
       \o (IF ~Falsy(headers) /\ headers.t = "string"
             THEN PushIfInvalid(validateJson(headers, "headers")) ELSE <<>>)
       \o (IF ~Falsy(body) /\ body.t = "string"
             THEN PushIfInvalid(validateJson(body, "body")) ELSE <<>>))

(***************************************************************************)
(* Document model.  A raw document is a collection identity, the           *)
(* collection-scoped and global variable maps, and the nodes of the tree   *)
(* in document order, each with the folder path of its ancestors.          *)
(***************************************************************************)
EmptyMap == [n \in {} |-> ""]

NodeA == [kind |-> "request", path |-> "",
          f |-> [name |-> Str("r1"), method |-> Str("get"),
                 url |-> Str("https://a.io/1")]]
NodeB == [kind |-> "request", path |-> "",
          f |-> [name |-> Str("r1"), method |-> Str("GET"),
                 url |-> Str("https://a.io/2"),
                 authConfig |-> Obj([type |-> Str("bearer"),
                                     token |-> Str("abc123")])]]
NodeC == [kind |-> "request", path |-> "f",
          f |-> [name |-> Str("r2"), method |-> Str("post"),
                 url |-> Str("{{base}}/y")]]
NodeD == [kind |-> "request", path |-> "",
          f |-> [name |-> Str("r3"), method |-> Str("FETCH"),
                 url |-> Str("http://a.io"),
                 authConfig |-> Obj([type |-> Str("bearer")])]]
NodeJunk == [kind |-> "junk", path |-> "", f |-> EmptyMap]
NodeNoUrl == [kind |-> "request", path |-> "",
              f |-> [name |-> Str("r4"), method |-> Str("GET")]]

NodePool == {NodeA, NodeB, NodeC, NodeD, NodeJunk, NodeNoUrl}

CollVarChoices ==
  { EmptyMap, [base |-> "https://a.io"], [base |-> "{{host}}"] }

\* Folder-scoped variable maps, by folder path.
FolderVarChoices == { [f |-> EmptyMap] }

SeqsUpTo(S, n) == UNION { [1..k -> S] : k \in 0..n }

Documents ==
  [collection : {"c1"}, collVars : CollVarChoices,
   folderVars : FolderVarChoices, globals : {EmptyMap},
   raw : SeqsUpTo(NodePool, MaxItems)]

(***************************************************************************)
(* Collection Parser: Parse(raw) -> Collection | fails(ParseError).        *)
(***************************************************************************)
\* Variant: a request without URL is not reported.
NodeError_MethodOnly(node) ==
  IF node.kind # "request" THEN "MalformedStructure"
  ELSE IF Falsy(Get(node, "method")) THEN "MissingField"
  ELSE "none"

NodeError(node) ==
  IF node.kind # "request" THEN "MalformedStructure"
  ELSE IF Falsy(Get(node, "method")) \/ Falsy(Get(node, "url"))
    THEN "MissingField"
  ELSE "none"

Parse(d) ==
  LET bad == { i \in 1..Len(d.raw) : NodeError(d.raw[i]) # "none" }
  IN IF bad # {}
       THEN [ok |-> FALSE,
             kind |-> NodeError(d.raw[CHOOSE i \in bad : \A j \in bad : i <= j])]
       ELSE [ok |-> TRUE,
             items |-> [i \in 1..Len(d.raw) |->
                          [name |-> d.raw[i].f.name.s,
                           path |-> d.raw[i].path,
                           request |-> Obj(d.raw[i].f)]]]

(***************************************************************************)
(* Variable Resolver: textual substitution of {{name}} references against  *)
(* a scope chain searched front to back.                                   *)
(***************************************************************************)
Ok(v) == [ok |-> TRUE, value |-> v]
Err(kind, chain) == [ok |-> FALSE, kind |-> kind, chain |-> chain]

\* Variant: the outermost scope that defines the name wins.
Lookup_Outermost(name, scopes) ==
  LET def == { k \in 1..Len(scopes) : name \in DOMAIN scopes[k] }
  IN IF def = {} THEN 0 ELSE CHOOSE k \in def : \A m \in def : k >= m

\* Index of the first scope of the chain that defines name, 0 when none does.
Lookup(name, scopes) ==
  LET def == { k \in 1..Len(scopes) : name \in DOMAIN scopes[k] }
  IN IF def = {} THEN 0 ELSE CHOOSE k \in def : \A m \in def : k <= m

\* The names visited from the first visit of name on: the exact cycle.
CycleOf(chain, name) ==
  LET at == CHOOSE k \in 1..Len(chain) :
              chain[k] = name /\ \A m \in 1..(k - 1) : chain[m] # name
  IN SubSeq(chain, at, Len(chain))

\* Variant: a circular reference reports only the name met twice.
RECURSIVE ResolveTemplate_ShortChain(_, _, _)
ResolveTemplate_ShortChain(s, scopes, chain) ==
  LET i == IndexOf(s, "{{")
      j == IF i = 0 THEN 0 ELSE IndexFrom(s, "}}", i + 2)
  IN IF i = 0 \/ j = 0 THEN Ok(s)
     ELSE
       LET name == SubSeq(s, i + 2, j - 1)
           k == Lookup(name, scopes)
       IN IF Includes(chain, name) THEN Err("CircularReference", <<name>>)
          ELSE IF k = 0 THEN Err("Unresolved", <<name>>)
          ELSE
            LET v == ResolveTemplate_ShortChain(scopes[k][name], scopes,
                                                Append(chain, name))
                rest == ResolveTemplate_ShortChain(SubSeq(s, j + 2, Len(s)),
                                                   scopes, chain)
            IN IF ~v.ok THEN v
               ELSE IF ~rest.ok THEN rest
               ELSE Ok(SubSeq(s, 1, i - 1) \o v.value \o rest.value)

\* Variant: a reference no scope defines is left as literal text.
RECURSIVE ResolveTemplate_LeavesLiteral(_, _, _)
ResolveTemplate_LeavesLiteral(s, scopes, chain) ==
  LET i == IndexOf(s, "{{")
      j == IF i = 0 THEN 0 ELSE IndexFrom(s, "}}", i + 2)
  IN IF i = 0 \/ j = 0 THEN Ok(s)
     ELSE
       LET name == SubSeq(s, i + 2, j - 1)
           k == Lookup(name, scopes)
           rest == ResolveTemplate_LeavesLiteral(SubSeq(s, j + 2, Len(s)),
                                                 scopes, chain)
       IN IF Includes(chain, name)
            THEN Err("CircularReference", CycleOf(chain, name))
          ELSE IF k = 0
            THEN IF rest.ok THEN Ok(SubSeq(s, 1, j + 1) \o rest.value)
                 ELSE rest
          ELSE
            LET v == ResolveTemplate_LeavesLiteral(scopes[k][name], scopes,
                                                   Append(chain, name))
            IN IF ~v.ok THEN v
               ELSE IF ~rest.ok THEN rest
               ELSE Ok(SubSeq(s, 1, i - 1) \o v.value \o rest.value)

RECURSIVE ResolveTemplate(_, _, _)
ResolveTemplate(s, scopes, chain) ==
  LET i == IndexOf(s, "{{")
      j == IF i = 0 THEN 0 ELSE IndexFrom(s, "}}", i + 2)
  IN IF i = 0 \/ j = 0 THEN Ok(s)
     ELSE
       LET name == SubSeq(s, i + 2, j - 1)
           k == Lookup(name, scopes)
       IN IF Includes(chain, name)
            THEN Err("CircularReference", CycleOf(chain, name))
          ELSE IF k = 0 THEN Err("Unresolved", <<name>>)
          ELSE
            LET v == ResolveTemplate(scopes[k][name], scopes,
                                     Append(chain, name))
                rest == ResolveTemplate(SubSeq(s, j + 2, Len(s)), scopes, chain)
            IN IF ~v.ok THEN v
               ELSE IF ~rest.ok THEN rest
               ELSE Ok(SubSeq(s, 1, i - 1) \o v.value \o rest.value)

HasVariableRef(s) ==
  LET i == IndexOf(s, "{{")
  IN i > 0 /\ IndexFrom(s, "}}", i + 2) > 0

\* A variable map is well formed when every value of it resolves.
MapError(map, scopes) ==
  LET bad == { n \in DOMAIN map : ~ResolveTemplate(map[n], scopes, <<n>>).ok }
  IN IF bad = {} THEN "none"
     ELSE ResolveTemplate(map[CHOOSE n \in bad : TRUE], scopes,
                          <<CHOOSE n \in bad : TRUE>>).kind

\* The members of a set of numbers, largest first.
RECURSIVE Descending(_)
Descending(S) ==
  IF S = {} THEN <<>>
  ELSE LET m == CHOOSE x \in S : \A y \in S : x >= y
       IN <<m>> \o Descending(S \ {m})

\* The folders enclosing a folder path, innermost first: "f/g" is inside
\* "f/g" and "f".
EnclosingFolders(path) ==
  LET ends == { k \in 1..Len(path) :
                  k = Len(path) \/ SubSeq(path, k + 1, k + 1) = "/" }
      order == Descending(ends)
  IN [i \in 1..Len(order) |-> SubSeq(path, 1, order[i])]

FolderMap(d, folder) ==
  IF folder \in DOMAIN d.folderVars THEN d.folderVars[folder] ELSE EmptyMap

\* The scope chain of a folder: its own map, the maps of the folders
\* around it innermost first, the collection map, then the global map.
FolderScopes(d, path) ==
  [i \in 1..Len(EnclosingFolders(path)) |->
     FolderMap(d, EnclosingFolders(path)[i])]
  \o <<d.collVars, d.globals>>

\* Variables defined at the item itself, if it carries local overrides.
ItemVars(item) == IF "vars" \in DOMAIN item THEN item.vars ELSE EmptyMap

\* The scope chain of an item: the item's own overrides, then the chain of
\* its folder.
ScopesOf(d, item) == <<ItemVars(item)>> \o FolderScopes(d, item.path)

\* The first error among the collection map and the folder maps, each
\* resolved against its own scope chain.
BatchMapError(d) ==
  LET folders == { p \in DOMAIN d.folderVars :
                     MapError(d.folderVars[p], FolderScopes(d, p)) # "none" }
      coll == MapError(d.collVars, <<d.collVars, d.globals>>)
  IN IF coll # "none" THEN coll
     ELSE IF folders = {} THEN "none"
     ELSE MapError(d.folderVars[CHOOSE p \in folders : TRUE],
                   FolderScopes(d, CHOOSE p \in folders : TRUE))

\* Resolve one value of a request: a string is a template, an object is
\* resolved field by field, anything else is left as it is.
ResolveFieldFrom(v, scopes, visited) ==
  IF v.t = "string"
    THEN LET r == ResolveTemplate(v.s, scopes, visited)
         IN IF r.ok THEN Ok(Str(r.value)) ELSE r
  ELSE IF v.t = "object"
    THEN LET rs == [k \in DOMAIN v.f |->
                      IF v.f[k].t = "string"
                        THEN ResolveTemplate(v.f[k].s, scopes, visited)
                        ELSE Ok("")]
             bad == { k \in DOMAIN v.f : ~rs[k].ok }
         IN IF bad # {} THEN rs[CHOOSE k \in bad : TRUE]
            ELSE Ok(Obj([k \in DOMAIN v.f |->
                           IF v.f[k].t = "string" THEN Str(rs[k].value)
                           ELSE v.f[k]]))
  ELSE Ok(v)

ResolveField(v, scopes) == ResolveFieldFrom(v, scopes, <<>>)

TemplateFields == <<"url", "method", "headers", "body", "authConfig">>

ResolveItemFrom(item, scopes, visited) ==
  LET f == item.request.f
      rs == [k \in DOMAIN f |->
               IF Includes(TemplateFields, k)
                 THEN ResolveFieldFrom(f[k], scopes, visited)
               ELSE Ok(f[k])]
      bad == { i \in 1..Len(TemplateFields) :
                 TemplateFields[i] \in DOMAIN f /\ ~rs[TemplateFields[i]].ok }
  IN IF bad # {}
       THEN rs[TemplateFields[CHOOSE i \in bad : \A j \in bad : i <= j]]
       ELSE Ok([item EXCEPT !.request = Obj([k \in DOMAIN f |-> rs[k].value])])

ResolveItem(item, scopes) == ResolveItemFrom(item, scopes, <<>>)

\* The names a template refers to, in order of appearance.
RECURSIVE RefNames(_)
RefNames(s) ==
  LET i == IndexOf(s, "{{")
      j == IF i = 0 THEN 0 ELSE IndexFrom(s, "}}", i + 2)
  IN IF i = 0 \/ j = 0 THEN <<>>
     ELSE <<SubSeq(s, i + 2, j - 1)>> \o RefNames(SubSeq(s, j + 2, Len(s)))

\* The names the templated string fields of an item refer to.
RECURSIVE ItemRefNames(_, _)
ItemRefNames(item, k) ==
  IF k > Len(TemplateFields) THEN <<>>
  ELSE LET v == Get(item.request, TemplateFields[k])
       IN (IF v.t = "string" THEN RefNames(v.s) ELSE <<>>)
          \o ItemRefNames(item, k + 1)

\* Variant: one visited set shared by all the items of a run.
CallVisited_Shared(visitedSoFar) == visitedSoFar

\* The visited set is per resolution call: each item starts from an
\* empty one, whatever was visited for the items resolved before it.
CallVisited(visitedSoFar) == <<>>

\* Resolve the items in the given order of traversal.
RECURSIVE ResolveRun(_, _, _, _, _, _)
ResolveRun(d, its, order, k, visitedSoFar, results) ==
  IF k > Len(order) THEN results
  ELSE LET i == order[k]
           r == ResolveItemFrom(its[i], ScopesOf(d, its[i]),
                                CallVisited(visitedSoFar))
       IN ResolveRun(d, its, order, k + 1,
                     visitedSoFar \o ItemRefNames(its[i], 1),
                     [results EXCEPT ![i] = r])

ResolveAll(d, its, order) ==
  ResolveRun(d, its, order, 1, <<>>, [i \in 1..Len(its) |-> Ok(its[i])])

ItemHasVariableRef(item) ==
  LET f == item.request.f
  IN \E k \in DOMAIN f :
       \/ (f[k].t = "string" /\ HasVariableRef(f[k].s))
       \/ (f[k].t = "object" /\
             \E m \in DOMAIN f[k].f :
               f[k].f[m].t = "string" /\ HasVariableRef(f[k].f[m].s))

(***************************************************************************)
(* Persistent store: the table of request records, in insertion order.     *)
(***************************************************************************)
KeyOf(d, item) == <<d.collection, item.path, item.name>>

\* Variant: an upsert that always inserts.
Upsert_AlwaysInsert(table, key, payload) ==
  Append(table, [key |-> key, payload |-> payload])

\* Upsert by natural key: update the record in place when the key is
\* present, insert a new record otherwise.
Upsert(table, key, payload) ==
  IF \E i \in 1..Len(table) : table[i].key = key
    THEN [i \in 1..Len(table) |->
            IF table[i].key = key THEN [key |-> key, payload |-> payload]
            ELSE table[i]]
    ELSE Append(table, [key |-> key, payload |-> payload])

(***************************************************************************)
(* Import outcomes and results.                                            *)
(***************************************************************************)
Pending == [kind |-> "Pending", why |-> ""]
Imported == [kind |-> "Imported", why |-> ""]
Failed(why) == [kind |-> "Failed", why |-> why]
Skipped(why) == [kind |-> "Skipped", why |-> why]

CountKind(outs, kind) == Cardinality({ i \in 1..Len(outs) : outs[i].kind = kind })

NoResult ==
  [kind |-> "none", status |-> "none", error |-> "none", total |-> 0,
   imported |-> 0, skipped |-> 0, failed |-> 0, outcomes |-> <<>>]

\* The ImportResult returned to the caller.
Returned(status, outs) ==
  [kind |-> "returned", status |-> status, error |-> "none",
   total |-> Len(outs),
   imported |-> CountKind(outs, "Imported"),
   skipped |-> CountKind(outs, "Skipped"),
   failed |-> CountKind(outs, "Failed"),
   outcomes |-> outs]

\* The call ends by throwing: no ImportResult reaches the caller.
Thrown(err) == [NoResult EXCEPT !.kind = "thrown", !.error = err]

\* Variant: only the fulfilled results are summarized.
summarizeResults_OnlyFulfilled(outs) ==
  Returned("Committed", SelectSeq(outs, LAMBDA o : o.kind = "Imported"))

summarizeResults(outs) == Returned("Committed", outs)

\* `failures.length > collections.length * 0.5`, in integers.
MaxFailureRatioNum == 1
MaxFailureRatioDen == 2

\* Variant: the threshold compared with >= instead of >.
OverThreshold_AtLeast(failures, total) ==
  failures * MaxFailureRatioDen >= total * MaxFailureRatioNum

OverThreshold(failures, total) ==
  failures * MaxFailureRatioDen > total * MaxFailureRatioNum

(***************************************************************************)
(* State of the importer.                                                  *)
(***************************************************************************)
VARIABLES
  pc,           \* position of the Import call
  doc,          \* the raw document handed to Import
  items,        \* the parsed, then resolved, RequestItems
  outcomes,     \* per-item outcome, in document order
  preFailed,    \* items Failed before the transaction was opened
  validated,    \* items the validator has been run on
  attempted,    \* items whose upsert was started in the write phase
  inProgress,   \* items whose upsert is in flight on the transaction
  store,        \* committed records
  txStore,      \* records as seen inside the open transaction
  txOpen,       \* a transaction is open on the client
  held,         \* the client (transaction handle) is checked out
  stmts,        \* statements issued on the client by this call
  decision,     \* outcome of the threshold check of this call
  error,        \* the error in flight in this call
  cancelled,    \* phase in which this call was cancelled
  result,       \* what the call handed back to its caller
  storeAtStart, \* committed records when this call started
  calls,        \* number of Import calls started
  fn,           \* the utility function under evaluation, "none" if none
  arg,          \* the arguments it was called with
  ret,          \* what it handed back
  connectionLock, \* this.connectionLock: null or the promise stored in it
  promises,     \* the promises of the establishConnection calls made
  callers       \* position of each caller of ensureConnection

importerVars == <<pc, doc, items, outcomes, preFailed, validated, attempted,
            inProgress, store, txStore, txOpen, held, stmts, decision, error,
            cancelled, result, storeAtStart, calls>>

utilVars == <<fn, arg, ret>>

connVars == <<connectionLock, promises, callers>>

vars == <<importerVars, utilVars, connVars>>

N == Len(items)

\* Largest number of concurrent callers of ensureConnection and of
\* establishConnection calls.
MaxCallers == 3
MaxAttempts == 2

Idle == [pc |-> "idle", on |-> 0, owner |-> FALSE, last |-> "none"]

\* No connection was asked for yet: connectionLock is null.
ConnectionIdle ==
  /\ connectionLock = 0
  /\ promises = <<>>
  /\ callers = [c \in 1..MaxCallers |-> Idle]

Init ==
  /\ pc = "idle"
  /\ doc \in Documents
  /\ items = <<>>
  /\ outcomes = <<>>
  /\ preFailed = {}
  /\ validated = {}
  /\ attempted = {}
  /\ inProgress = {}
  /\ store = <<>>
  /\ txStore = <<>>
  /\ txOpen = FALSE
  /\ held = FALSE
  /\ stmts = <<>>
  /\ decision = "none"
  /\ error = "none"
  /\ cancelled = "none"
  /\ result = NoResult
  /\ storeAtStart = <<>>
  /\ calls = 0
  /\ fn = "none"
  /\ arg = <<>>
  /\ ret = <<>>
  /\ ConnectionIdle

\* Import(document): a call starts; the second call re-imports the
\* unchanged document.
StartImport ==
  /\ pc \in {"idle", "done"}
  /\ calls < MaxImports
  /\ calls' = calls + 1
  /\ pc' = "parse"
  /\ items' = <<>>
  /\ outcomes' = <<>>
  /\ preFailed' = {}
  /\ validated' = {}
  /\ attempted' = {}
  /\ inProgress' = {}
  /\ txStore' = <<>>
  /\ stmts' = <<>>
  /\ decision' = "none"
  /\ error' = "none"
  /\ cancelled' = "none"
  /\ result' = NoResult
  /\ storeAtStart' = store
  /\ UNCHANGED <<doc, store, txOpen, held>>
  /\ UNCHANGED <<utilVars, connVars>>

\* Step 1: parse; a ParseError ends the call before any transaction.
ParseStep ==
  /\ pc = "parse"
  /\ LET r == Parse(doc)
     IN IF r.ok
          THEN /\ items' = r.items
               /\ outcomes' = [i \in 1..Len(r.items) |-> Pending]
               /\ pc' = "resolve"
               /\ UNCHANGED result
          ELSE /\ result' = Returned("RolledBack", <<Failed(r.kind)>>)
               /\ pc' = "done"
               /\ UNCHANGED <<items, outcomes>>
  /\ UNCHANGED <<doc, preFailed, validated, attempted, inProgress, store,
                 txStore, txOpen, held, stmts, decision, error, cancelled,
                 storeAtStart, calls>>
  /\ UNCHANGED <<utilVars, connVars>>

\* Step 2: resolve; a malformed variable map ends the call, an item-scoped
\* failure becomes that item's Failed outcome.
ResolveStep ==
  /\ pc = "resolve"
  /\ LET mapErr == BatchMapError(doc)
         rs == ResolveAll(doc, items, [i \in 1..N |-> i])
     IN IF mapErr # "none"
          THEN /\ result' = Returned("RolledBack", <<Failed(mapErr)>>)
               /\ pc' = "done"
               /\ UNCHANGED <<items, outcomes, preFailed>>
          ELSE /\ items' = [i \in 1..N |->
                              IF rs[i].ok THEN rs[i].value ELSE items[i]]
               /\ outcomes' = [i \in 1..N |->
                                 IF rs[i].ok THEN outcomes[i]
                                 ELSE Failed(rs[i].kind)]
               /\ preFailed' = { i \in 1..N : ~rs[i].ok }
               /\ pc' = "validate"
               /\ UNCHANGED result
  /\ UNCHANGED <<doc, validated, attempted, inProgress, store, txStore,
                 txOpen, held, stmts, decision, error, cancelled,
                 storeAtStart, calls>>
  /\ UNCHANGED <<utilVars, connVars>>

\* Outcome of validating item i: a validation failure is a Failed outcome.
ValidateOutcome(out, request) ==
  IF out.kind = "Pending" /\ ~validateApiRequest(request).isValid
    THEN Failed("ValidationError")
    ELSE out

\* Step 3: validate every item.
ValidateStep ==
  /\ pc = "validate"
  /\ validated' = 1..N
  /\ outcomes' = [i \in 1..N |-> ValidateOutcome(outcomes[i], items[i].request)]
  /\ preFailed' = { i \in 1..N : outcomes'[i].kind = "Failed" }
  /\ pc' = "connect"
  /\ UNCHANGED <<doc, items, attempted, inProgress, store, txStore, txOpen,
                 held, stmts, decision, error, cancelled, result,
                 storeAtStart, calls>>
  /\ UNCHANGED <<utilVars, connVars>>

\* const client = await this.pool.connect()
ConnectStep ==
  /\ pc = "connect"
  /\ held' = TRUE
  /\ pc' = "begin"
  /\ UNCHANGED <<doc, items, outcomes, preFailed, validated, attempted,
                 inProgress, store, txStore, txOpen, stmts, decision, error,
                 cancelled, result, storeAtStart, calls>>
  /\ UNCHANGED <<utilVars, connVars>>

\* await client.query('BEGIN'): the statement succeeds or throws.
BeginStep ==
  /\ pc = "begin"
  /\ stmts' = Append(stmts, "BEGIN")
  /\ \/ /\ txOpen' = TRUE
        /\ txStore' = store
        /\ pc' = "map"
        /\ UNCHANGED error
     \/ /\ error' = "BeginFailed"
        /\ pc' = "catch"
        /\ UNCHANGED <<txOpen, txStore>>
  /\ UNCHANGED <<doc, items, outcomes, preFailed, validated, attempted,
                 inProgress, store, held, decision, cancelled, result,
                 storeAtStart, calls>>
  /\ UNCHANGED <<utilVars, connVars>>

\* The items the write phase hands to importSingleCollection.
ToWrite(outs) == { i \in 1..Len(outs) : outs[i].kind = "Pending" }

\* collections.map(c => this.importSingleCollection(client, c)): every
\* pending item's upsert is started before any of them is awaited.
MapStep ==
  /\ pc = "map"
  /\ inProgress' = ToWrite(outcomes)
  /\ attempted' = ToWrite(outcomes)
  /\ pc' = "settle"
  /\ UNCHANGED <<doc, items, outcomes, preFailed, validated, store, txStore,
                 txOpen, held, stmts, decision, error, cancelled, result,
                 storeAtStart, calls>>
  /\ UNCHANGED <<utilVars, connVars>>

\* importSingleCollection of item i fulfils: its record is upserted.
SettleFulfilled(i) ==
  /\ pc = "settle"
  /\ i \in inProgress
  /\ txStore' = Upsert(txStore, KeyOf(doc, items[i]), items[i].request)
  /\ outcomes' = [outcomes EXCEPT ![i] = Imported]
  /\ inProgress' = inProgress \ {i}
  /\ UNCHANGED <<pc, doc, items, preFailed, validated, attempted, store,
                 txOpen, held, stmts, decision, error, cancelled, result,
                 storeAtStart, calls>>
  /\ UNCHANGED <<utilVars, connVars>>

\* Variant: the rejection is not recorded on the item.
RejectedOutcome_Unrecorded(out) == out

\* Outcome of an item whose upsert was rejected by the store.
RejectedOutcome(out) == Failed("PersistenceError")

\* Variant: Promise.all instead of Promise.allSettled, the first rejection
\* is thrown out of the try block.
SettleRejected_FailFast(i) ==
  /\ pc = "settle"
  /\ i \in inProgress
  /\ outcomes' = [outcomes EXCEPT ![i] = Failed("PersistenceError")]
  /\ inProgress' = inProgress \ {i}
  /\ error' = "PersistenceError"
  /\ pc' = "catch"
  /\ UNCHANGED <<doc, items, preFailed, validated, attempted, store,
                 txStore, txOpen, held, stmts, decision, cancelled,
                 result, storeAtStart, calls>>
  /\ UNCHANGED <<utilVars, connVars>>

\* importSingleCollection of item i rejects: allSettled records the
\* rejection and the others go on.
SettleRejected(i) ==
  /\ pc = "settle"
  /\ i \in inProgress
  /\ outcomes' = [outcomes EXCEPT ![i] = RejectedOutcome(outcomes[i])]
  /\ inProgress' = inProgress \ {i}
  /\ UNCHANGED <<pc, doc, items, preFailed, validated, attempted, store,
                 txStore, txOpen, held, stmts, decision, error, cancelled,
                 result, storeAtStart, calls>>
  /\ UNCHANGED <<utilVars, connVars>>

\* Variant: the threshold check does not wait for every started upsert to
\* settle.
DecideStep_Early ==
  /\ pc = "settle"
  /\ IF OverThreshold(CountKind(outcomes, "Failed"), N)
       THEN /\ stmts' = Append(stmts, "ROLLBACK")
            /\ txOpen' = FALSE
            /\ txStore' = store
            /\ decision' = "rollback"
            /\ error' = "TooManyFailures"
            /\ pc' = "catch"
       ELSE /\ decision' = "commit"
            /\ pc' = "commit"
            /\ UNCHANGED <<stmts, txOpen, txStore, error>>
  /\ UNCHANGED <<doc, items, outcomes, preFailed, validated, attempted,
                 inProgress, store, held, cancelled, result, storeAtStart,
                 calls>>
  /\ UNCHANGED <<utilVars, connVars>>

\* The threshold check once allSettled has every result: over the
\* threshold ROLLBACK is issued and an error thrown, else go on to COMMIT.
DecideStep ==
  /\ pc = "settle"
  /\ inProgress = {}
  /\ IF OverThreshold(CountKind(outcomes, "Failed"), N)
       THEN /\ stmts' = Append(stmts, "ROLLBACK")
            /\ txOpen' = FALSE
            /\ txStore' = store
            /\ decision' = "rollback"
            /\ error' = "TooManyFailures"
            /\ pc' = "catch"
       ELSE /\ decision' = "commit"
            /\ pc' = "commit"
            /\ UNCHANGED <<stmts, txOpen, txStore, error>>
  /\ UNCHANGED <<doc, items, outcomes, preFailed, validated, attempted,
                 inProgress, store, held, cancelled, result, storeAtStart,
                 calls>>
  /\ UNCHANGED <<utilVars, connVars>>

\* await client.query('COMMIT'); return this.summarizeResults(results)
CommitStep ==
  /\ pc = "commit"
  /\ stmts' = Append(stmts, "COMMIT")
  /\ \/ /\ store' = txStore
        /\ txOpen' = FALSE
        /\ result' = summarizeResults(outcomes)
        /\ pc' = "finally"
        /\ UNCHANGED error
     \/ /\ error' = "CommitFailed"
        /\ pc' = "catch"
        /\ UNCHANGED <<store, txOpen, result>>
  /\ UNCHANGED <<doc, items, outcomes, preFailed, validated, attempted,
                 inProgress, txStore, held, decision, cancelled,
                 storeAtStart, calls>>
  /\ UNCHANGED <<utilVars, connVars>>

\* catch (error) { await client.query('ROLLBACK'); throw error; }
CatchStep ==
  /\ pc = "catch"
  /\ stmts' = Append(stmts, "ROLLBACK")
  /\ txOpen' = FALSE
  /\ txStore' = store
  /\ pc' = "finally"
  /\ UNCHANGED <<doc, items, outcomes, preFailed, validated, attempted,
                 inProgress, store, held, decision, error, cancelled, result,
                 storeAtStart, calls>>
  /\ UNCHANGED <<utilVars, connVars>>

\* Variant: a threshold rollback is reported as a returned result.
FinalResult_Returns(err, res, outs) ==
  IF err = "none" THEN res ELSE Returned("RolledBack", outs)

\* What the call hands back once the handle is released.
FinalResult(err, res, outs) ==
  IF err = "none" THEN res
  ELSE IF err = "Cancelled" THEN Returned("RolledBack", outs)
  ELSE Thrown(err)

\* Variant: the handle is only released when no error is in flight.
FinallyStep_ReleaseOnSuccess ==
  /\ pc = "finally"
  /\ held' = (error # "none")
  /\ result' = FinalResult(error, result, outcomes)
  /\ pc' = "done"
  /\ UNCHANGED <<doc, items, outcomes, preFailed, validated, attempted,
                 inProgress, store, txStore, txOpen, stmts, decision, error,
                 cancelled, storeAtStart, calls>>
  /\ UNCHANGED <<utilVars, connVars>>

\* finally { client.release(); }
FinallyStep ==
  /\ pc = "finally"
  /\ held' = FALSE
  /\ result' = FinalResult(error, result, outcomes)
  /\ pc' = "done"
  /\ UNCHANGED <<doc, items, outcomes, preFailed, validated, attempted,
                 inProgress, store, txStore, txOpen, stmts, decision, error,
                 cancelled, storeAtStart, calls>>
  /\ UNCHANGED <<utilVars, connVars>>

\* Variant: items already written inside the transaction keep Imported.
CancelOutcomes_KeepWritten(outs) ==
  [i \in 1..Len(outs) |->
     IF outs[i].kind = "Imported" THEN outs[i] ELSE Skipped("Cancelled")]

\* Outcomes after a cancellation: nothing is durably written before the
\* commit, so every item is Skipped{Cancelled}.
CancelOutcomes(outs) == [i \in 1..Len(outs) |-> Skipped("Cancelled")]

\* Cancellation during the parallel phase: in-flight work is discarded.
CancelParallel ==
  /\ pc \in {"resolve", "validate", "connect"}
  /\ cancelled' = "parallel"
  /\ outcomes' = CancelOutcomes(outcomes)
  /\ result' = Returned("RolledBack", CancelOutcomes(outcomes))
  /\ pc' = "done"
  /\ UNCHANGED <<doc, items, preFailed, validated, attempted, inProgress,
                 store, txStore, txOpen, held, stmts, decision, error,
                 storeAtStart, calls>>
  /\ UNCHANGED <<utilVars, connVars>>

\* Cancellation during the transactional phase, before the commit
\* decision: the transaction is rolled back through the error path.
CancelTransactional ==
  /\ pc \in {"map", "settle"}
  /\ cancelled' = "transactional"
  /\ error' = "Cancelled"
  /\ outcomes' = CancelOutcomes(outcomes)
  /\ inProgress' = {}
  /\ pc' = "catch"
  /\ UNCHANGED <<doc, items, preFailed, validated, attempted, store, txStore,
                 txOpen, held, stmts, decision, result, storeAtStart, calls>>
  /\ UNCHANGED <<utilVars, connVars>>

Next ==
  \/ StartImport
  \/ ParseStep
  \/ ResolveStep
  \/ ValidateStep
  \/ ConnectStep
  \/ BeginStep
  \/ MapStep
  \/ \E i \in 1..N : SettleFulfilled(i)
  \/ \E i \in 1..N : SettleRejected(i)
  \/ DecideStep
  \/ CommitStep
  \/ CatchStep
  \/ FinallyStep
  \/ CancelParallel
  \/ CancelTransactional

Spec == Init /\ [][Next]_vars

\* The steps of a call that holds the client: every awaited statement and
\* every started upsert settles, and the continuation of the async
\* function is then run.
Progress ==
  \/ BeginStep
  \/ MapStep
  \/ \E i \in 1..N : SettleFulfilled(i)
  \/ \E i \in 1..N : SettleRejected(i)
  \/ DecideStep
  \/ CommitStep
  \/ CatchStep
  \/ FinallyStep

FairSpec == Spec /\ WF_vars(Progress)

(***************************************************************************)
(* Vocabulary of the properties.                                           *)
(***************************************************************************)
FailedCount == CountKind(outcomes, "Failed")

\* The first COMMIT or ROLLBACK this call issued, "none" when there is none.
FirstEnd ==
  LET ends == { k \in 1..Len(stmts) : stmts[k] \in {"COMMIT", "ROLLBACK"} }
  IN IF ends = {} THEN "none"
     ELSE stmts[CHOOSE k \in ends : \A m \in ends : k <= m]

\* The rules a request has to meet, stated on the request itself.
MeetsRules(request) ==
  LET f == request.f
  IN /\ "name" \in DOMAIN f /\ f.name.t = "string"
     /\ Len(f.name.s) \in 1..200
     /\ "method" \in DOMAIN f /\ f.method.t = "string"
     /\ ToUpperCase(f.method.s) \in
          {"GET", "POST", "PUT", "DELETE", "PATCH", "HEAD", "OPTIONS"}
     /\ "url" \in DOMAIN f /\ f.url.t = "string"
     /\ StartsWith(f.url.s, "https://") /\ Len(f.url.s) \in 9..2000
     /\ ("authConfig" \in DOMAIN f =>
           /\ Get(f.authConfig, "type") = Str("bearer")
           /\ Get(f.authConfig, "token").t = "string"
           /\ Get(f.authConfig, "token").s # "")

\* Items of the running call that fail validation.
FailValidation ==
  { i \in 1..N : outcomes[i] # Failed("Unresolved")
                 /\ ~MeetsRules(items[i].request) }

\* The store, the COMMIT and BEGIN statements and the caller did not fail
\* or interfere with this call.
NoFault ==
  /\ cancelled = "none"
  /\ error \notin {"BeginFailed", "CommitFailed"}
  /\ \A i \in 1..N : outcomes[i] # Failed("PersistenceError")

\* C1: once every item outcome is known the transaction is ended by
\* ROLLBACK exactly when failed * 2 > total and by COMMIT otherwise; a
\* rollback leaves the store as it was; half of the items failing commits.
C1_ThresholdDecision ==
  (decision # "none" /\ pc # "commit") =>
     /\ (FailedCount * 2 > N) <=> (FirstEnd = "ROLLBACK")
     /\ (FailedCount * 2 <= N) <=> (FirstEnd = "COMMIT")
     /\ FirstEnd = "ROLLBACK" => store = storeAtStart
     /\ (FirstEnd = "COMMIT" /\ error = "none") =>
          (store = txStore /\ result.status = "Committed")

C1_Witness ==
  /\ pc = "done" /\ decision = "commit" /\ error = "none"
  /\ N = 2 /\ FailedCount = 1
  /\ result.status = "Committed"
  /\ store # storeAtStart

Issued(stmt) == \E k \in 1..Len(stmts) : stmts[k] = stmt

\* C4: a call that checked out the client and opened a transaction always
\* releases the handle, on the commit, threshold, cancellation and
\* failure paths alike, and no call ends with its transaction open.
C4_HandleReleased ==
  /\ [](pc \in {"idle", "done"} => (~held /\ ~txOpen))
  /\ [](held => <>(~held /\ ~txOpen /\ pc = "done"))

C4_Witness ==
  /\ pc = "done" /\ error = "CommitFailed"
  /\ Issued("BEGIN") /\ Issued("COMMIT")
  /\ ~held /\ ~txOpen

\* The document has a node that is no request or lacks its URL, or a
\* collection variable whose value refers to an undefined name.
BatchFatalDocument ==
  \/ \E k \in 1..Len(doc.raw) : doc.raw[k] \in {NodeJunk, NodeNoUrl}
  \/ doc.collVars = [base |-> "{{host}}"]

\* C5: a batch-fatal error ends the call before any transaction is opened:
\* no statement is issued, the result has status RolledBack and the
\* persisted records are those from before the call.
C5_BatchFatalBeforeTransaction ==
  BatchFatalDocument =>
     /\ stmts = <<>> /\ ~txOpen /\ ~held
     /\ store = storeAtStart
     /\ pc = "done" =>
          /\ result.kind = "returned"
          /\ result.status = "RolledBack"
          /\ result.imported = 0

C5_Witness ==
  /\ pc = "done"
  /\ Len(doc.raw) = 3
  /\ doc.raw[1] = NodeB /\ doc.raw[3] = NodeNoUrl
  /\ result.status = "RolledBack"
  /\ result.outcomes = <<Failed("MissingField")>>

\* C6: an item-fatal error is that item's Failed outcome and the batch
\* goes on: every item is validated, every item still pending is attempted
\* in the write phase, a rejected upsert leaves the others in flight, and
\* the threshold check sees every item settled.
C6_ItemIsolation ==
  (cancelled = "none" /\ pc \notin {"idle", "parse", "resolve", "validate"}
     /\ ~BatchFatalDocument) =>
     /\ validated = 1..N
     /\ \A i \in preFailed : outcomes[i].kind = "Failed"
     /\ (pc \in {"settle", "commit"} \/ decision # "none") =>
          attempted = (1..N) \ preFailed
     /\ pc = "settle" =>
          inProgress = { i \in attempted : outcomes[i].kind = "Pending" }
     /\ decision # "none" =>
          \A i \in 1..N : outcomes[i].kind \in {"Imported", "Failed"}

C6_Witness ==
  /\ pc = "done" /\ cancelled = "none" /\ decision = "commit"
  /\ N = 3 /\ attempted = 1..3
  /\ \E i \in 1..N : outcomes[i] = Failed("PersistenceError")
  /\ CountKind(outcomes, "Imported") = 2

KeysOf(table) == { table[k].key : k \in 1..Len(table) }

NoDuplicateKeys(table) ==
  \A i, j \in 1..Len(table) : i # j => table[i].key # table[j].key

DistinctDocumentKeys ==
  \A i, j \in 1..N : i # j => KeyOf(doc, items[i]) # KeyOf(doc, items[j])

ImportedKeys ==
  { KeyOf(doc, items[i]) : i \in { k \in 1..N : outcomes[k].kind = "Imported" } }

\* C7: no natural key is on more than one persisted record, and a
\* committed re-import of the unchanged document, of items the store
\* already holds, leaves the same keys and the same number of records;
\* with one item per natural key it leaves the very same records.
C7_ReimportIdempotent ==
  /\ NoDuplicateKeys(store)
  /\ NoDuplicateKeys(txStore)
  /\ (calls >= 2 /\ pc = "done" /\ result.status = "Committed"
        /\ ImportedKeys \subseteq KeysOf(storeAtStart)) =>
       /\ KeysOf(store) = KeysOf(storeAtStart)
       /\ Len(store) = Len(storeAtStart)
       /\ DistinctDocumentKeys => store = storeAtStart

C7_Witness ==
  /\ calls = 2 /\ pc = "done" /\ result.status = "Committed"
  /\ N = 2 /\ result.imported = 2
  /\ Len(storeAtStart) = 2
  /\ store = storeAtStart

\* The document parses and holds no variable reference.
WellFormedNoReferences ==
  /\ \A k \in 1..Len(doc.raw) :
       /\ doc.raw[k].kind = "request"
       /\ ~Falsy(Get(doc.raw[k], "method")) /\ ~Falsy(Get(doc.raw[k], "url"))
       /\ ~ItemHasVariableRef([request |-> Obj(doc.raw[k].f)])
  /\ \A n \in DOMAIN doc.collVars : ~HasVariableRef(doc.collVars[n])

AllImported ==
  /\ result.kind = "returned"
  /\ result.status = "Committed"
  /\ Len(result.outcomes) = Len(doc.raw)
  /\ \A k \in 1..Len(result.outcomes) : result.outcomes[k] = Imported

C9_CancelRollsBack ==
  cancelled = "transactional" =>
     /\ store = storeAtStart
     /\ ~Issued("COMMIT")
     /\ pc = "done" =>
          /\ ~txOpen /\ ~held
          /\ stmts[Len(stmts)] = "ROLLBACK"
          /\ result.kind = "returned"
          /\ result.status = "RolledBack"
          /\ Len(result.outcomes) = N
          /\ \A i \in 1..N : result.outcomes[i] = Skipped("Cancelled")

C9_Witness ==
  /\ cancelled = "transactional" /\ pc = "done"
  /\ N = 3 /\ attempted = 1..3
  /\ result.skipped = 3
  /\ store = storeAtStart

\* This step issues ROLLBACK on an open transaction.
RollsBackOpenTransaction ==
  /\ txOpen /\ ~txOpen'
  /\ stmts' = Append(stmts, "ROLLBACK")

ThresholdExceeded == inProgress = {} /\ FailedCount * 2 > N

ImporterIdle ==
  /\ pc = "idle"
  /\ doc = [collection |-> "c1", collVars |-> EmptyMap,
            folderVars |-> [f |-> EmptyMap], globals |-> EmptyMap,
            raw |-> <<>>]
  /\ items = <<>>
  /\ outcomes = <<>>
  /\ preFailed = {}
  /\ validated = {}
  /\ attempted = {}
  /\ inProgress = {}
  /\ store = <<>>
  /\ txStore = <<>>
  /\ txOpen = FALSE
  /\ held = FALSE
  /\ stmts = <<>>
  /\ decision = "none"
  /\ error = "none"
  /\ cancelled = "none"
  /\ result = NoResult
  /\ storeAtStart = <<>>
  /\ calls = 0

ScopedCollVars ==
  { EmptyMap, [v |-> "c"], [v |-> "c", B |-> "{{A}}"],
    [A |-> "{{B}}", B |-> "{{A}}"] }
ScopedOuterFolderVars == { EmptyMap, [v |-> "f"], [A |-> "{{B}}"] }
ScopedInnerFolderVars ==
  { EmptyMap, [v |-> "fg"], [B |-> "{{A}}", v |-> "{{B}}"] }
ScopedGlobals == { EmptyMap, [v |-> "env"] }
ScopedItemVars == { EmptyMap, [v |-> "own"] }

ScopedDocuments ==
  { [collection |-> "c1", collVars |-> c,
     folderVars |-> [p \in {"f", "f/g"} |-> IF p = "f" THEN o ELSE i],
     globals |-> g, raw |-> <<>>] :
      c \in ScopedCollVars, o \in ScopedOuterFolderVars,
      i \in ScopedInnerFolderVars, g \in ScopedGlobals }

RequestAt(name, path, url) ==
  [name |-> name, path |-> path,
   request |-> Obj([name |-> Str(name), method |-> Str("GET"),
                    url |-> Str(url)])]

\* Items that refer to v from the root, from folder f and from folder f/g,
\* and items that enter the chain of A and B at A and at B.
ScopedItems(own) ==
  << RequestAt("X", "", "{{v}}"),
     RequestAt("Y", "f", "{{v}}"),
     RequestAt("Z", "f/g", "{{v}}") @@ [vars |-> own],
     RequestAt("P", "f/g", "{{A}}"),
     RequestAt("Q", "f", "{{B}}") >>

TraversalOrders(n) ==
  { p \in [1..n -> 1..n] : \A i, j \in 1..n : i # j => p[i] # p[j] }

ResolverInit ==
  /\ ImporterIdle
  /\ ConnectionIdle
  /\ fn = "none"
  /\ arg \in { [d |-> d, items |-> ScopedItems(own), order |-> p] :
                  d \in ScopedDocuments, own \in ScopedItemVars,
                  p \in TraversalOrders(Len(ScopedItems(EmptyMap))) }
  /\ ret = <<>>

\* Resolve every item of the document, in the order of traversal.
CallResolve ==
  /\ fn = "none"
  /\ fn' = "Resolve"
  /\ ret' = ResolveAll(arg.d, arg.items, arg.order)
  /\ UNCHANGED <<arg, importerVars, connVars>>

ResolverNext == CallResolve

ResolverSpec == ResolverInit /\ [][ResolverNext]_vars

(***************************************************************************)
(* ErrorHandler: sanitization of messages and details, the response        *)
(* builders, handleError and wrapAsync.                                    *)
(***************************************************************************)
\* Characters matched by \s.
Whitespace == {" ", "\t", "\n"}

CharAt(s, i) == SubSeq(s, i, i)

\* /kw[=:]\s*[^\s]+/i tried at the start of s: the position of the last
\* character matched, 0 when there is no match here.
MatchEnd(s, kw) ==
  LET n == Len(kw)
  IN IF /\ Len(s) > n
        /\ CharAt(s, n + 1) \in {"=", ":"}
        /\ ToLowerCase(SubSeq(s, 1, n)) = kw
       THEN LET value == { k \in (n + 2)..Len(s) : CharAt(s, k) \notin Whitespace }
            IN IF value = {} THEN 0
               ELSE LET first == CHOOSE k \in value : \A m \in value : k <= m
                    IN CHOOSE k \in first..Len(s) :
                         /\ \A m \in first..k : CharAt(s, m) \notin Whitespace
                         /\ (k = Len(s) \/ CharAt(s, k + 1) \in Whitespace)
       ELSE 0

\* Variant: the keyword is matched case-sensitively (no i flag).
RECURSIVE ReplaceSecret_CaseSensitive(_, _)
ReplaceSecret_CaseSensitive(s, kw) ==
  IF s = "" THEN ""
  ELSE LET e == IF StartsWith(s, kw) THEN MatchEnd(s, kw) ELSE 0
       IN IF e > 0
            THEN kw \o "=***"
                 \o ReplaceSecret_CaseSensitive(SubSeq(s, e + 1, Len(s)), kw)
            ELSE CharAt(s, 1)
                 \o ReplaceSecret_CaseSensitive(SubSeq(s, 2, Len(s)), kw)

\* message.replace(/kw[=:]\s*[^\s]+/gi, 'kw=***'): every match, left to
\* right and without overlap.
RECURSIVE ReplaceSecret(_, _)
ReplaceSecret(s, kw) ==
  IF s = "" THEN ""
  ELSE LET e == MatchEnd(s, kw)
       IN IF e > 0
            THEN kw \o "=***" \o ReplaceSecret(SubSeq(s, e + 1, Len(s)), kw)
            ELSE CharAt(s, 1) \o ReplaceSecret(SubSeq(s, 2, Len(s)), kw)

sanitizeErrorMessage(message) ==
  ReplaceSecret(
    ReplaceSecret(
      ReplaceSecret(
        ReplaceSecret(message, "password"), "token"), "key"), "secret")

\* Object.entries(value): the own properties of an object, the indices of
\* an array.
Entries(v) ==
  IF v.t = "array"
    THEN [k \in { CharAt(Digits, i) : i \in 1..Len(v.a) } |->
            v.a[IndexOf(Digits, k)]]
  ELSE v.f

RECURSIVE sanitizeErrorDetails(_)
sanitizeErrorDetails(details) ==
  IF Falsy(details) THEN details
  ELSE IF TypeOf(details) = "string"
    THEN Str(sanitizeErrorMessage(details.s))
  ELSE IF TypeOf(details) = "object"
    THEN Obj([key \in DOMAIN Entries(details) |->
                LET value == Entries(details)[key]
                IN IF TypeOf(value) = "string"
                     THEN Str(sanitizeErrorMessage(value.s))
                   ELSE IF TypeOf(value) = "object"
                     THEN sanitizeErrorDetails(value)
                   ELSE value])
  ELSE details

createErrorResponse(code, message, details, now) ==
  [success |-> FALSE,
   error |-> [code |-> code,
              message |-> sanitizeErrorMessage(message),
              details |-> sanitizeErrorDetails(details),
              timestamp |-> now]]

createSuccessResponse(data, now) ==
  [success |-> TRUE, data |-> data, timestamp |-> now]

\* Thrown values: instances of AppError and of its subclasses, other
\* instances of Error, and values that are no Error at all.
AppErrorClasses ==
  {"AppError", "DatabaseError", "ValidationError", "NotFoundError",
   "TimeoutError"}
ErrorClasses == AppErrorClasses \cup {"Error", "TypeError"}

NewAppError(class, code, message, details) ==
  [t |-> "object", class |-> class, code |-> code, message |-> message,
   details |-> details]
NewError(class, message) ==
  [t |-> "object", class |-> class, message |-> message]

InstanceOfAppError(e) == "class" \in DOMAIN e /\ e.class \in AppErrorClasses
InstanceOfError(e) == "class" \in DOMAIN e /\ e.class \in ErrorClasses

\* Variant: an AppError is handled like any other Error.
handleError_NoAppError(e, now) ==
  IF InstanceOfError(e)
    THEN createErrorResponse("INTERNAL_ERROR", "An unexpected error occurred",
                             Obj([originalMessage |-> Str(e.message)]), now)
  ELSE createErrorResponse("INTERNAL_ERROR", "An unknown error occurred",
                           Undefined, now)

handleError(e, now) ==
  IF InstanceOfAppError(e)
    THEN createErrorResponse(e.code, e.message, e.details, now)
  ELSE IF InstanceOfError(e)
    THEN createErrorResponse("INTERNAL_ERROR", "An unexpected error occurred",
                             Obj([originalMessage |-> Str(e.message)]), now)
  ELSE createErrorResponse("INTERNAL_ERROR", "An unknown error occurred",
                           Undefined, now)

\* What the promise of an async call can be.
PromisePending == [state |-> "pending"]
PromiseFulfilled(value) == [state |-> "fulfilled", value |-> value]
PromiseRejected(reason) == [state |-> "rejected", reason |-> reason]

\* Variant: no try/catch around the awaited call.
wrapAsyncSettled_NoCatch(settled, now) ==
  IF settled.state = "fulfilled"
    THEN PromiseFulfilled(createSuccessResponse(settled.value, now))
  ELSE PromiseRejected(settled.reason)

\* wrapAsync once fn() has settled: the try block returns the success
\* response, the catch block what handleError builds.
wrapAsyncSettled(settled, now) ==
  IF settled.state = "fulfilled"
    THEN PromiseFulfilled(createSuccessResponse(settled.value, now))
  ELSE PromiseFulfilled(handleError(settled.reason, now))

\* Readings of the clock, as toISOString() gives them.
Clock == {"2024-01-15T10:00:00.000Z", "2024-01-15T10:00:01.000Z"}

ErrorCodes == {"AUTHENTICATION_ERROR", "VALIDATION_ERROR"}

\* Messages that name a secret in different spellings, with different
\* separators and values, and messages that name none.
SecretMessages ==
  { pre \o kw \o sep \o val \o suf :
      pre \in {"", "Connection failed with "},
      kw \in {"password", "Token", "KEY", "secret", "apikey", "pass"},
      sep \in {"=", ":", ": ", " = ", " "},
      val \in {"secret123", "token=abc", ""},
      suf \in {"", " at db"} }

PlainMessages == {"Test error", "Auth failed"}

DetailChoices ==
  { Undefined, Null, Str("token=abc"),
    Obj([token |-> Str("secret_token_123"), other |-> Str("safe_data")]),
    Obj([token |-> Str("abc"), userId |-> Num(7)]),
    Obj([field |-> Str("password: hunter2"), count |-> Num(3)]),
    Obj([errors |-> Arr(<<Str("Name is required"), Str("key=abc")>>)]),
    Obj([request |-> Obj([secret |-> Str("s3cr3t"), note |-> Null])]) }

ThrownValues ==
  { NewAppError(class, code, message, details) :
      class \in {"AppError", "ValidationError"}, code \in ErrorCodes,
      message \in {"Test error", "Invalid token: abc123"},
      details \in { Undefined, Obj([field |-> Str("test")]),
                    Obj([errors |-> Arr(<<Str("Name is required")>>)]) } }
  \cup { NewError(class, message) :
           class \in {"Error", "TypeError"},
           message \in {"Generic error", "connect failed password=hunter2"} }
  \cup { Str("String error"), Undefined, Null, Num(42),
         Obj([message |-> Str("not an error")]) }

\* What the function handed to wrapAsync does.
FnBehaviours ==
  { PromiseFulfilled(v) : v \in {Str("success"), Undefined, Num(0)} }
  \cup { PromiseRejected(e) : e \in ThrownValues }

ErrorInit ==
  /\ ImporterIdle
  /\ ConnectionIdle
  /\ fn = "none"
  /\ arg = <<>>
  /\ ret = <<>>

CallCreateErrorResponse ==
  /\ fn = "none"
  /\ \E code \in ErrorCodes, now \in Clock,
        in \in { <<m, Undefined>> : m \in SecretMessages \cup PlainMessages }
               \cup { <<"Auth failed", d>> : d \in DetailChoices } :
       /\ arg' = [code |-> code, message |-> in[1], details |-> in[2]]
       /\ ret' = createErrorResponse(code, in[1], in[2], now)
  /\ fn' = "createErrorResponse"
  /\ UNCHANGED <<importerVars, connVars>>

CallHandleError ==
  /\ fn = "none"
  /\ \E e \in ThrownValues, now \in Clock :
       /\ arg' = [error |-> e]
       /\ ret' = handleError(e, now)
  /\ fn' = "handleError"
  /\ UNCHANGED <<importerVars, connVars>>

\* wrapAsync(fn): fn is called and awaited.
CallWrapAsync ==
  /\ fn = "none"
  /\ \E b \in FnBehaviours : arg' = [fn |-> b]
  /\ ret' = PromisePending
  /\ fn' = "wrapAsync"
  /\ UNCHANGED <<importerVars, connVars>>

\* fn() settles and wrapAsync runs on to its return.
SettleWrapAsync ==
  /\ fn = "wrapAsync"
  /\ ret = PromisePending
  /\ \E now \in Clock : ret' = wrapAsyncSettled(arg.fn, now)
  /\ UNCHANGED <<fn, arg, importerVars, connVars>>

ErrorNext ==
  \/ CallCreateErrorResponse
  \/ CallHandleError
  \/ CallWrapAsync
  \/ SettleWrapAsync

ErrorSpec == ErrorInit /\ [][ErrorNext]_vars

(***************************************************************************)
(* The validators called on their own.                                     *)
(***************************************************************************)
\* /^[^\s@]+@[^\s@]+\.[^\s@]+$/.test(s): one @ that is not the first
\* character, no white space, and a dot after the @ with at least one
\* character on either side of it.
EmailRegexTest(s) ==
  \E i \in 2..Len(s) :
    /\ CharAt(s, i) = "@"
    /\ \A m \in (1..Len(s)) \ {i} : CharAt(s, m) \notin Whitespace \cup {"@"}
    /\ \E k \in (i + 2)..(Len(s) - 1) : CharAt(s, k) = "."

MaxEmailLength == 254

validateEmail(email) ==
  Result(
    IF Falsy(email) THEN <<"Email is required">>
    ELSE IF email.t # "string" THEN <<"Email must be a string">>
    ELSE (IF ~EmailRegexTest(email.s) THEN <<"Email format is invalid">>
          ELSE <<>>)
         \o (IF Len(email.s) > MaxEmailLength
               THEN <<"Email is too long (max 254 characters)">>
               ELSE <<>>))

\* Addresses put together from a local part, the @ and a domain, and the
\* values that are no address.
EmailInputs ==
  { Str(local \o at \o domain) :
      local \in {"", "user", "user..double", "test.email+tag", "us er", ".user"},
      at \in {"", "@", "@@"},
      domain \in {"", "domain", "domain.com", ".com", "domain.",
                  "domain.co.uk", "test-domain.org", "do main.com"} }
  \cup { Undefined, Null, Num(5) }

ValidatorInit ==
  /\ ImporterIdle
  /\ ConnectionIdle
  /\ fn = "none"
  /\ arg = <<>>
  /\ ret = <<>>

CallValidateEmail ==
  /\ fn = "none"
  /\ \E email \in EmailInputs :
       /\ arg' = [email |-> email]
       /\ ret' = validateEmail(email)
  /\ fn' = "validateEmail"
  /\ UNCHANGED <<importerVars, connVars>>

\* Method names in upper, lower and mixed case, names that are no
\* method, and values that are no string.
MethodInputs ==
  { Str(m) : m \in {"GET", "POST", "PUT", "DELETE", "PATCH", "HEAD", "OPTIONS",
                     "get", "post", "put", "delete", "patch", "head", "options",
                     "Get", "pAtCh", "INVALID", "FETCH", "GETS", " get", "ge t",
                     "TRACE", "connect", ""} }
  \cup { Undefined, Null, Num(0), Num(123), Bool(FALSE), Bool(TRUE),
         Obj([method |-> Str("GET")]), Arr(<<Str("GET")>>) }

CallValidateHttpMethod ==
  /\ fn = "none"
  /\ \E method \in MethodInputs :
       /\ arg' = [method |-> method]
       /\ ret' = validateHttpMethod(method)
  /\ fn' = "validateHttpMethod"
  /\ UNCHANGED <<importerVars, connVars>>

\* validations.flatMap(v => v.errors)
RECURSIVE FlatErrors(_)
FlatErrors(validations) ==
  IF validations = <<>> THEN <<>>
  ELSE Head(validations).errors \o FlatErrors(Tail(validations))

\* Variant: only the errors of the first argument that has any.
combineValidations_FirstOnly(validations) ==
  LET bad == { k \in 1..Len(validations) : validations[k].errors # <<>> }
      allErrors == IF bad = {} THEN <<>>
                   ELSE validations[CHOOSE k \in bad : \A m \in bad : k <= m].errors
  IN [isValid |-> Len(allErrors) = 0, errors |-> allErrors]

combineValidations(validations) ==
  LET allErrors == FlatErrors(validations)
  IN [isValid |-> Len(allErrors) = 0, errors |-> allErrors]

\* Largest number of arguments handed to combineValidations.
MaxValidations == 3

\* Results as the validators return them.
ValidationResults ==
  { [isValid |-> TRUE, errors |-> <<>>],
    [isValid |-> FALSE, errors |-> <<"Error 1">>],
    [isValid |-> FALSE, errors |-> <<"Error 2", "Error 3">>],
    validateHttpMethod(Str("")) }

CallCombineValidations ==
  /\ fn = "none"
  /\ \E validations \in SeqsUpTo(ValidationResults, MaxValidations) :
       /\ arg' = [validations |-> validations]
       /\ ret' = combineValidations(validations)
  /\ fn' = "combineValidations"
  /\ UNCHANGED <<importerVars, connVars>>

\* Requests with each field missing, valid or invalid; a missing property
\* reads as undefined.
ApiRequests ==
  { Obj([name |-> n, method |-> m, url |-> u, authConfig |-> a,
         headers |-> h]) :
      n \in {Undefined, Str("Test API"), Str("")},
      m \in {Undefined, Str("GET"), Str("INVALID_METHOD"), Num(5)},
      u \in {Undefined, Str("https://api.example.com"),
             Str("http://insecure.com"), Str("not-a-url")},
      a \in {Undefined, Obj([type |-> Str("bearer")]),
             Obj([type |-> Str("bearer"), token |-> Str("abc123")]),
             Obj([type |-> Str("digest"), key |-> Str("k")]), Str("bearer")},
      h \in {Undefined, Str("{bad")} }

CallValidateApiRequest ==
  /\ fn = "none"
  /\ \E request \in ApiRequests :
       /\ arg' = [request |-> request]
       /\ ret' = validateApiRequest(request)
  /\ fn' = "validateApiRequest"
  /\ UNCHANGED <<importerVars, connVars>>

\* 2000 characters, as 'a'.repeat(2000).
A10 == "aaaaaaaaaa"
A100 == A10 \o A10 \o A10 \o A10 \o A10 \o A10 \o A10 \o A10 \o A10 \o A10
A2000 ==
  A100 \o A100 \o A100 \o A100 \o A100 \o A100 \o A100 \o A100 \o A100 \o A100
  \o A100 \o A100 \o A100 \o A100 \o A100 \o A100 \o A100 \o A100 \o A100 \o A100

\* URLs of several schemes, with and without host, strings that are no
\* URL, some of them with a path of 2000 characters, and values that are
\* no string.
UrlInputs ==
  { Str(head \o host \o path) :
      head \in {"https://", "http://", "HTTPS://", "https:/", "https:",
                "ftp://", "mailto:", "://", "", "1ttp://"},
      host \in {"", "api.example.com", "exa mple.com", "not-a-url"},
      path \in {"", "/v1/users"} }
  \cup { Str(head \o "api.example.com/" \o A2000) :
           head \in {"https://", "http://", "HTTPS://", "://", "1ttp://"} }
  \cup { Undefined, Null, Num(5), Bool(TRUE),
         Obj([url |-> Str("https://api.example.com")]) }

CallValidateUrl ==
  /\ fn = "none"
  /\ \E url \in UrlInputs :
       /\ arg' = [url |-> url]
       /\ ret' = validateUrl(url)
  /\ fn' = "validateUrl"
  /\ UNCHANGED <<importerVars, connVars>>

(***************************************************************************)
(* The other validators.                                                   *)
(***************************************************************************)
\* Number.MAX_SAFE_INTEGER is beyond the integers of the checker: min and
\* max are always passed.
validateNumericRange(value, field, min, max) ==
  Result(
    IF TypeOf(value) # "number" THEN <<field \o " must be a number">>
    ELSE IF ~IsFinite(value) THEN <<field \o " must be a finite number">>
    ELSE (IF value.n < min
            THEN <<field \o " must be at least " \o ToString(min)>>
            ELSE <<>>)
         \o (IF value.n > max
               THEN <<field \o " must not exceed " \o ToString(max)>>
               ELSE <<>>))

HexDigits == "0123456789abcdefABCDEF"

\* /^[0-9a-f]{8}-[0-9a-f]{4}-[1-5][0-9a-f]{3}-[89ab][0-9a-f]{3}-[0-9a-f]{12}$/i
IsUuid(id) ==
  /\ Len(id) = 36
  /\ \A i \in 1..36 :
       IF i \in {9, 14, 19, 24} THEN CharAt(id, i) = "-"
       ELSE IF i = 15 THEN IndexOf("12345", CharAt(id, i)) > 0
       ELSE IF i = 20 THEN IndexOf("89abAB", CharAt(id, i)) > 0
       ELSE IndexOf(HexDigits, CharAt(id, i)) > 0

\* /^\d+$/
IsNumeric(id) == id # "" /\ \A i \in 1..Len(id) : IsDigit(CharAt(id, i))

MaxIdLength == 100

validateDatabaseId(id) ==
  Result(
    IF Falsy(id) THEN <<"ID is required">>
    ELSE IF TypeOf(id) # "string" THEN <<"ID must be a string">>
    ELSE (IF ~IsUuid(id.s) /\ ~IsNumeric(id.s)
            THEN <<"ID must be a valid UUID or numeric identifier">>
            ELSE <<>>)
         \o (IF Len(id.s) > MaxIdLength
               THEN <<"ID is too long (max 100 characters)">>
               ELSE <<>>))

\* A case-insensitive pattern without wildcards occurs in s.
TestIgnoreCase(s, p) ==
  \E i \in 1..(Len(s) - Len(p) + 1) :
    ToLowerCase(SubSeq(s, i, i + Len(p) - 1)) = p

WordChars == LowerLetters \o UpperLetters \o Digits \o "_"

\* /on\w+\s*=/i tried at position i of s: the position of the '=' that
\* ends the match, 0 when there is no match at i.  \w+ takes the whole run
\* of word characters, \s* the whole run of blanks.
OnHandlerEnd(s, i) ==
  IF i + 1 > Len(s) \/ ToLowerCase(SubSeq(s, i, i + 1)) # "on" THEN 0
  ELSE
    LET ends == { k \in (i + 3)..Len(s) :
                    /\ CharAt(s, k) = "="
                    /\ \E j \in (i + 2)..(k - 1) :
                         /\ \A m \in (i + 2)..j :
                              IndexOf(WordChars, CharAt(s, m)) > 0
                         /\ \A m \in (j + 1)..(k - 1) :
                              CharAt(s, m) \in Whitespace }
    IN IF ends = {} THEN 0 ELSE CHOOSE k \in ends : TRUE

suspiciousPatterns(query) ==
  \/ TestIgnoreCase(query, "<script")
  \/ TestIgnoreCase(query, "javascript:")
  \/ \E i \in 1..Len(query) : OnHandlerEnd(query, i) > 0
  \/ TestIgnoreCase(query, "data:")

MaxQueryLength == 500

validateSearchQuery(query) ==
  Result(
    IF query.t \in {"undefined", "null"} THEN <<>>
    ELSE IF TypeOf(query) # "string" THEN <<"Search query must be a string">>
    ELSE (IF \A i \in 1..Len(query.s) : CharAt(query.s, i) \in Whitespace
            THEN <<"Search query cannot be empty">> ELSE <<>>)
         \o (IF Len(query.s) > MaxQueryLength
               THEN <<"Search query too long (max 500 characters)">>
               ELSE <<>>)
         \o (IF suspiciousPatterns(query.s)
               THEN <<"Search query contains invalid characters">>
               ELSE <<>>))

MaxPage == 10000
MaxLimit == 1000

validatePaginationParams(page, limit) ==
  Result(
    (IF page # Undefined
       THEN PushIfInvalid(validateNumericRange(page, "page", 1, MaxPage))
       ELSE <<>>)
    \o (IF limit # Undefined
          THEN PushIfInvalid(validateNumericRange(limit, "limit", 1, MaxLimit))
          ELSE <<>>))

\* Numbers below, at and above the limits, numbers that are not finite and
\* values that are no number.
NumericInputs ==
  { Num(n) : n \in {-1, 0, 1, 5, 10, 11, 1000, 1001, 10000, 10001} }
  \cup { NaN, Infinity, Undefined, Null, Str("5"), Arr(<<>>) }

CallValidateNumericRange ==
  /\ fn = "none"
  /\ \E value \in NumericInputs, field \in {"page", "Age"},
        range \in {<<0, 100>>, <<1, 10>>, <<-5, 0>>, <<10, 1>>} :
       /\ arg' = [value |-> value, field |-> field, min |-> range[1],
                  max |-> range[2]]
       /\ ret' = validateNumericRange(value, field, range[1], range[2])
  /\ fn' = "validateNumericRange"
  /\ UNCHANGED <<importerVars, connVars>>

D10 == "1234567890"
D101 == D10 \o D10 \o D10 \o D10 \o D10 \o D10 \o D10 \o D10 \o D10 \o D10 \o "1"

\* UUIDs of a valid and an invalid version and variant, numeric ids, one
\* of them of 101 digits, strings that are neither, and values that are no
\* string.
DatabaseIdInputs ==
  { Str(id) : id \in {"550e8400-e29b-41d4-a716-446655440000",
                       "550E8400-E29B-41D4-A716-446655440000",
                       "550e8400-e29b-61d4-a716-446655440000",
                       "550e8400-e29b-41d4-c716-446655440000",
                       "550e8400e29b41d4a716446655440000",
                       "123", "0", "12a", "-1", "1.5", "not-an-id", " 123",
                       "", D101, D101 \o "x"} }
  \cup { Undefined, Null, Num(0), Num(123), Bool(TRUE) }

CallValidateDatabaseId ==
  /\ fn = "none"
  /\ \E id \in DatabaseIdInputs :
       /\ arg' = [id |-> id]
       /\ ret' = validateDatabaseId(id)
  /\ fn' = "validateDatabaseId"
  /\ UNCHANGED <<importerVars, connVars>>

\* Plain queries, blank ones, one of 501 characters, queries with each of
\* the suspicious patterns, and values that are no string.
SearchQueryInputs ==
  { Str(q) : q \in {"aruba switch", "", "   ", " ap ", "<script>alert(1)",
                     "<SCRIPT src=x>", "script", "javascript:alert(1)",
                     "JavaScript:x", "javascript", "onclick=alert(1)",
                     "onload  = x", "ONERROR=x", "on=", "on =", "button=",
                     "data:text/html", "metadata: x", "data",
                     A100 \o A100 \o A100 \o A100 \o A100 \o "a",
                     A100 \o A100 \o A100 \o A100 \o A100 \o "<script"} }
  \cup { Undefined, Null, Num(0), Num(42), Bool(FALSE),
         Obj([q |-> Str("x")]) }

CallValidateSearchQuery ==
  /\ fn = "none"
  /\ \E query \in SearchQueryInputs :
       /\ arg' = [query |-> query]
       /\ ret' = validateSearchQuery(query)
  /\ fn' = "validateSearchQuery"
  /\ UNCHANGED <<importerVars, connVars>>

CallValidatePaginationParams ==
  /\ fn = "none"
  /\ \E page \in {Undefined, Null, NaN, Str("1"), Num(0), Num(1),
                   Num(10000), Num(10001)},
        limit \in {Undefined, Infinity, Num(0), Num(1), Num(1000),
                    Num(1001)} :
       /\ arg' = [page |-> page, limit |-> limit]
       /\ ret' = validatePaginationParams(page, limit)
  /\ fn' = "validatePaginationParams"
  /\ UNCHANGED <<importerVars, connVars>>

CallValidateStringLength ==
  /\ fn = "none"
  /\ \E value \in {Str(""), Str("a"), Str("abc"), Str("abcdef"), Undefined,
                    Null, Num(3), Arr(<<>>)},
        field \in {"name", "description"},
        range \in {<<0, 5>>, <<1, 3>>, <<4, 2>>} :
       /\ arg' = [value |-> value, field |-> field, minLength |-> range[1],
                  maxLength |-> range[2]]
       /\ ret' = validateStringLength(value, field, range[1], range[2])
  /\ fn' = "validateStringLength"
  /\ UNCHANGED <<importerVars, connVars>>

CallValidateJson ==
  /\ fn = "none"
  /\ \E value \in {Str("{}"), Str("[]"), Str("true"), Str("12"), Str("012"),
                    Str("\"text\""), Str("{bad"), Str("undefined"), Str(""),
                    Undefined, Null, Num(0), Num(1), Bool(FALSE), Bool(TRUE),
                    Obj([a |-> Num(1)])},
        field \in {"headers", "body"} :
       /\ arg' = [value |-> value, field |-> field]
       /\ ret' = validateJson(value, field)
  /\ fn' = "validateJson"
  /\ UNCHANGED <<importerVars, connVars>>

\* Auth configurations of each type with and without their credentials,
\* and values that are no object.
AuthConfigInputs ==
  { Obj([type |-> t, token |-> tok, key |-> k, value |-> v]) :
      t \in {Undefined, Str(""), Str("bearer"), Str("apikey"), Str("basic"),
              Str("oauth2"), Str("digest"), Num(1)},
      tok \in {Undefined, Str(""), Str("abc123")},
      k \in {Undefined, Str("X-API-Key")},
      v \in {Undefined, Str(""), Str("secret")} }
  \cup { Undefined, Null, Num(0), Num(1), Str(""), Str("bearer"),
         Bool(FALSE), Bool(TRUE) }

CallValidateAuthConfig ==
  /\ fn = "none"
  /\ \E authConfig \in AuthConfigInputs :
       /\ arg' = [authConfig |-> authConfig]
       /\ ret' = validateAuthConfig(authConfig)
  /\ fn' = "validateAuthConfig"
  /\ UNCHANGED <<importerVars, connVars>>

(***************************************************************************)
(* sanitizeInput: four global replacements, then trim.                     *)
(***************************************************************************)
RECURSIVE RemoveChars(_, _)
\* s.replace(/[...]/g, ''): s without the characters of the set.
RemoveChars(s, chars) ==
  IF s = "" THEN ""
  ELSE (IF CharAt(s, 1) \in chars THEN "" ELSE CharAt(s, 1))
       \o RemoveChars(SubSeq(s, 2, Len(s)), chars)

RECURSIVE RemoveIgnoreCase(_, _)
\* s.replace(/p/gi, ''): the matches are looked for from left to right in
\* s itself, each search resuming after the match removed before.
RemoveIgnoreCase(s, p) ==
  IF Len(s) < Len(p) THEN s
  ELSE IF ToLowerCase(SubSeq(s, 1, Len(p))) = p
    THEN RemoveIgnoreCase(SubSeq(s, Len(p) + 1, Len(s)), p)
  ELSE CharAt(s, 1) \o RemoveIgnoreCase(SubSeq(s, 2, Len(s)), p)

RECURSIVE RemoveOnHandlers(_)
\* s.replace(/on\w+\s*=/gi, '')
RemoveOnHandlers(s) ==
  IF s = "" THEN ""
  ELSE IF OnHandlerEnd(s, 1) > 0
    THEN RemoveOnHandlers(SubSeq(s, OnHandlerEnd(s, 1) + 1, Len(s)))
  ELSE CharAt(s, 1) \o RemoveOnHandlers(SubSeq(s, 2, Len(s)))

\* s.trim()
Trim(s) ==
  LET inked == { i \in 1..Len(s) : CharAt(s, i) \notin Whitespace }
  IN IF inked = {} THEN ""
     ELSE SubSeq(s, CHOOSE i \in inked : \A m \in inked : i <= m,
                    CHOOSE j \in inked : \A m \in inked : m <= j)

sanitizeInput(input) ==
  IF TypeOf(input) # "string" THEN ""
  ELSE Trim(RemoveOnHandlers(RemoveIgnoreCase(
         RemoveChars(RemoveChars(input.s, {"<", ">"}), {"'", "\""}),
         "javascript:")))

\* Markup, quotes, script URLs and event handlers, plain and nested in one
\* another, and values that are no string.
SanitizeInputs ==
  { Str(pre \o mid \o post) :
      pre \in {"", "  ", "ja", "java", "o", "on", "<", "'"},
      mid \in {"", "hello", "javascript:", "JavaScript:", "onclick=",
                "ONLOAD  =", "onx=", "<script>", "\"xss\"", "on=", "<a>"},
      post \in {"", " ", "alert(1)", "vascript:", "script:", "nclick=",
                 "click=", ">", "=x"} }
  \cup { Str("<script>alert(\"xss\")</script>"),
         Str("It's a \"test\" string"), Str("  hello world  ") }
  \cup { Undefined, Null, Num(123), Bool(TRUE), Obj([s |-> Str("x")]),
         Arr(<<Str("x")>>) }

CallSanitizeInput ==
  /\ fn = "none"
  /\ \E input \in SanitizeInputs :
       /\ arg' = [input |-> input]
       /\ ret' = sanitizeInput(input)
  /\ fn' = "sanitizeInput"
  /\ UNCHANGED <<importerVars, connVars>>

ValidatorNext ==
  \/ CallValidateEmail
  \/ CallValidateHttpMethod
  \/ CallValidateUrl
  \/ CallCombineValidations
  \/ CallValidateApiRequest
  \/ CallValidateNumericRange
  \/ CallValidateDatabaseId
  \/ CallValidateSearchQuery
  \/ CallValidatePaginationParams
  \/ CallValidateStringLength
  \/ CallValidateJson
  \/ CallValidateAuthConfig
  \/ CallSanitizeInput

ValidatorSpec == ValidatorInit /\ [][ValidatorNext]_vars

(***************************************************************************)
(* ensureConnection: the connection lock shared by concurrent callers.     *)
(* A step is the code an async call runs between two awaits.               *)
(***************************************************************************)
Awaiting(promise, owner, last) ==
  [pc |-> "await", on |-> promise, owner |-> owner, last |-> last]

\* Variant: the state check without the lock, every caller that finds no
\* connection starts one.
CallEnsureConnection_NoLock(c) ==
  /\ callers[c].pc = "idle"
  /\ Len(promises) < MaxAttempts
  /\ promises' = Append(promises, "pending")
  /\ connectionLock' = Len(promises) + 1
  /\ callers' = [callers EXCEPT
                   ![c] = Awaiting(Len(promises) + 1, TRUE, callers[c].last)]
  /\ UNCHANGED <<importerVars, utilVars>>

\* ensureConnection() up to its await: a caller that finds connectionLock
\* set awaits it, else it stores the promise of establishConnection() in
\* connectionLock and awaits that.
CallEnsureConnection(c) ==
  /\ callers[c].pc = "idle"
  /\ IF connectionLock # 0
       THEN /\ callers' = [callers EXCEPT
                             ![c] = Awaiting(connectionLock, FALSE,
                                             callers[c].last)]
            /\ UNCHANGED <<connectionLock, promises>>
       ELSE /\ Len(promises) < MaxAttempts
            /\ promises' = Append(promises, "pending")
            /\ connectionLock' = Len(promises) + 1
            /\ callers' = [callers EXCEPT
                             ![c] = Awaiting(Len(promises) + 1, TRUE,
                                             callers[c].last)]
  /\ UNCHANGED <<importerVars, utilVars>>

\* establishConnection() succeeds.
EstablishFulfils(p) ==
  /\ promises[p] = "pending"
  /\ promises' = [promises EXCEPT ![p] = "fulfilled"]
  /\ UNCHANGED <<connectionLock, callers, importerVars, utilVars>>

\* establishConnection() fails.
EstablishRejects(p) ==
  /\ promises[p] = "pending"
  /\ promises' = [promises EXCEPT ![p] = "rejected"]
  /\ UNCHANGED <<connectionLock, callers, importerVars, utilVars>>

\* connectionLock after the await of the caller that stored the promise:
\* `this.connectionLock = null` is reached only when the await did not
\* throw.
ResumeOwner(settled, lock) == IF settled = "fulfilled" THEN 0 ELSE lock

\* The code after the await: the awaited promise has settled; a rejected
\* promise makes the await throw and ensureConnection reject.
Resume(c) ==
  /\ callers[c].pc = "await"
  /\ promises[callers[c].on] # "pending"
  /\ connectionLock' =
       IF callers[c].owner
         THEN ResumeOwner(promises[callers[c].on], connectionLock)
         ELSE connectionLock
  /\ callers' = [callers EXCEPT
                   ![c] = [Idle EXCEPT
                             !.last = IF promises[callers[c].on] = "fulfilled"
                                        THEN "returned" ELSE "threw"]]
  /\ UNCHANGED <<promises, importerVars, utilVars>>

ConnectionInit ==
  /\ ImporterIdle
  /\ ConnectionIdle
  /\ fn = "none"
  /\ arg = <<>>
  /\ ret = <<>>

ConnectionNext ==
  \/ \E c \in 1..MaxCallers : CallEnsureConnection(c)
  \/ \E p \in 1..Len(promises) : EstablishFulfils(p)
  \/ \E p \in 1..Len(promises) : EstablishRejects(p)
  \/ \E c \in 1..MaxCallers : Resume(c)

ConnectionSpec == ConnectionInit /\ [][ConnectionNext]_vars

Resolved == fn = "Resolve"

\* The template of request item i, as written in the document.
UrlTemplate(i) == arg.items[i].request.f.url.s

\* The nearest scope of item i that defines name, as the scope chain is
\* described: the item, its folders innermost first, the collection, the
\* global map.
ChainOf(i) ==
  LET path == arg.items[i].path
  IN <<ItemVars(arg.items[i])>>
     \o (IF path = "f/g" THEN <<arg.d.folderVars["f/g"], arg.d.folderVars["f"]>>
         ELSE IF path = "f" THEN <<arg.d.folderVars["f"]>>
         ELSE <<>>)
     \o <<arg.d.collVars, arg.d.globals>>

Defines(i, name) == \E k \in 1..Len(ChainOf(i)) : name \in DOMAIN ChainOf(i)[k]

NearestValue(i, name) ==
  LET chain == ChainOf(i)
      k == CHOOSE k \in 1..Len(chain) :
             /\ name \in DOMAIN chain[k]
             /\ \A m \in 1..(k - 1) : name \notin DOMAIN chain[m]
  IN chain[k][name]

\* Seen from item i, the value chain is A -> B -> A.
ChainABA(i) ==
  /\ Defines(i, "A") /\ NearestValue(i, "A") = "{{B}}"
  /\ Defines(i, "B") /\ NearestValue(i, "B") = "{{A}}"

\* C12: an item whose template enters a value chain A -> B -> A, at A or
\* at B and wherever the item comes in the traversal, fails with
\* CircularReference and a chain that holds both A and B.
C12_CircularReference ==
  Resolved =>
    \A i \in 1..Len(arg.items) :
      (ChainABA(i) /\ UrlTemplate(i) \in {"{{A}}", "{{B}}"}) =>
        /\ ~ret[i].ok
        /\ ret[i].kind = "CircularReference"
        /\ {"A", "B"} \subseteq { ret[i].chain[k] : k \in 1..Len(ret[i].chain) }

\* Both entries of the cycle are taken in one run, the one at B first.
C12_Witness ==
  /\ Resolved
  /\ \E i, j \in 1..Len(arg.items) :
       /\ ChainABA(i) /\ UrlTemplate(i) = "{{A}}" /\ ret[i].chain = <<"A", "B">>
       /\ ChainABA(j) /\ UrlTemplate(j) = "{{B}}" /\ ret[j].chain = <<"B", "A">>
       /\ \E a, b \in 1..Len(arg.order) :
            a < b /\ arg.order[a] = j /\ arg.order[b] = i

\* A value without a reference in it.
Literal(s) == IndexOf(s, "{{") = 0

FolderAndCollectionDefine(name) ==
  /\ name \in DOMAIN arg.d.folderVars["f"] /\ Literal(arg.d.folderVars["f"][name])
  /\ name \in DOMAIN arg.d.collVars /\ Literal(arg.d.collVars[name])

\* C13: with v defined in folder f's map and in the collection's map, a
\* reference in a request of folder f resolves to the folder's value and
\* one in a request outside the folder to the collection's value; in
\* general a reference resolves to the value of the nearest scope of the
\* chain that defines the name.
C13_NearestScopeWins ==
  Resolved =>
    /\ FolderAndCollectionDefine("v") =>
          \A i \in 1..Len(arg.items) :
            /\ (arg.items[i].path = "f" /\ UrlTemplate(i) = "{{v}}") =>
                  (ret[i].ok /\
                   ret[i].value.request.f.url = Str(arg.d.folderVars["f"]["v"]))
            /\ (arg.items[i].path = "" /\ UrlTemplate(i) = "{{v}}") =>
                  (ret[i].ok /\
                   ret[i].value.request.f.url = Str(arg.d.collVars["v"]))
    /\ \A i \in 1..Len(arg.items) :
         (/\ UrlTemplate(i) = "{{v}}"
          /\ Defines(i, "v")
          /\ Literal(NearestValue(i, "v"))) =>
            (ret[i].ok /\ ret[i].value.request.f.url = Str(NearestValue(i, "v")))

\* v is defined at the item, in both folders, in the collection and
\* globally, and three items get three different values.
C13_Witness ==
  /\ Resolved
  /\ FolderAndCollectionDefine("v")
  /\ "v" \in DOMAIN arg.d.globals /\ "v" \in DOMAIN arg.d.folderVars["f/g"]
  /\ ret[1].ok /\ ret[1].value.request.f.url = Str("c")
  /\ ret[2].ok /\ ret[2].value.request.f.url = Str("f")
  /\ ret[3].ok /\ ret[3].value.request.f.url = Str("own")

DocumentOrder == [i \in 1..Len(arg.items) |-> i]

UndefinedNames(i) ==
  LET names == ItemRefNames(items[i], 1)
  IN { n \in { names[k] : k \in 1..Len(names) } :
         /\ n \notin DOMAIN doc.collVars
         /\ n \notin DOMAIN doc.globals
         /\ \A p \in DOMAIN doc.folderVars : n \notin DOMAIN doc.folderVars[p] }

HasPlaceholder(payload) == ItemHasVariableRef([request |-> payload])

\* C15: a reference to a name that no scope defines fails the item with
\* an Unresolved error that carries the name, and neither an Imported
\* item nor a stored record holds placeholder text.
C15_UnresolvedIsFailure ==
  /\ pc = "validate" =>
       \A i \in 1..N :
         UndefinedNames(i) # {} =>
           /\ outcomes[i] = Failed("Unresolved")
           /\ LET r == ResolveItem(items[i], ScopesOf(doc, items[i]))
              IN ~r.ok /\ r.kind = "Unresolved" /\ r.chain \in
                   { <<n>> : n \in UndefinedNames(i) }
  /\ \A i \in 1..N : outcomes[i] = Imported => ~HasPlaceholder(items[i].request)
  /\ \A k \in 1..Len(store) : ~HasPlaceholder(store[k].payload)
  /\ \A k \in 1..Len(txStore) : ~HasPlaceholder(txStore[k].payload)

\* The request that refers to the undefined name has failed and is not in
\* the store, its sibling is.
C15_Witness ==
  /\ pc = "done" /\ store # <<>>
  /\ \E i, j \in 1..N :
       /\ outcomes[i] = Failed("Unresolved") /\ UndefinedNames(i) = {"base"}
       /\ outcomes[j] = Imported
       /\ \A k \in 1..Len(store) : store[k].key # KeyOf(doc, items[i])

(***************************************************************************)
(* C16 to C20: ErrorHandler.                                               *)
(***************************************************************************)
Built == fn = "createErrorResponse"

\* C16 as stated: a string stored under the key token of the details
\* object comes back as "***", the values under the other keys come back
\* unchanged.
C16_Original ==
  (Built /\ arg.details.t = "object" /\ "token" \in DOMAIN arg.details.f) =>
    /\ ret.error.details.f.token = Str("***")
    /\ \A k \in DOMAIN arg.details.f \ {"token"} :
         ret.error.details.f[k] = arg.details.f[k]

\* A response has been built, and the response.
ResponseBuilt ==
  \/ fn \in {"createErrorResponse", "handleError"}
  \/ (fn = "wrapAsync" /\ ret.state = "fulfilled")

Response == IF fn = "wrapAsync" THEN ret.value ELSE ret

SecretKeywords == {"password", "token", "key", "secret"}

\* kw, in any case, stands at position i of s and is followed by = or :.
KeywordAt(s, i, kw) ==
  /\ i + Len(kw) <= Len(s)
  /\ SubSeq(s, i + Len(kw), i + Len(kw)) \in {"=", ":"}
  /\ ToLowerCase(SubSeq(s, i, i + Len(kw) - 1)) = kw

\* The value that follows the keyword at position i: the first run of
\* characters other than white space after the separator, "" if none.
ValueAfter(s, i, kw) ==
  LET from == i + Len(kw) + 1
      black == { k \in from..Len(s) : SubSeq(s, k, k) \notin {" ", "\t", "\n"} }
  IN IF black = {} THEN ""
     ELSE LET first == CHOOSE k \in black : \A m \in black : k <= m
              after == { k \in first..Len(s) : k \notin black }
              last == IF after = {} THEN Len(s)
                      ELSE (CHOOSE k \in after : \A m \in after : k <= m) - 1
          IN SubSeq(s, first, last)

\* C17: in the message of an error response, wherever password, token,
\* key or secret (in any case) is followed by = or : and a value, the
\* value is ***; 'password=secret123' becomes 'password=***'.
C17_MessageSanitized ==
  (ResponseBuilt /\ ~Response.success) =>
    /\ \A kw \in SecretKeywords :
         \A i \in 1..Len(Response.error.message) :
           KeywordAt(Response.error.message, i, kw) =>
             ValueAfter(Response.error.message, i, kw) \in {"", "***"}
    /\ (Built /\ arg.message = "Connection failed with password=secret123") =>
         Response.error.message = "Connection failed with password=***"

\* A token written in capitals, with a colon and a blank, is masked.
C17_Witness ==
  /\ Built
  /\ arg.message = "Connection failed with Token: secret123 at db"
  /\ ret.error.message = "Connection failed with token=*** at db"

EmailChecked == fn = "validateEmail" /\ arg.email.t = "string"

\* The part of an address before its first @ and the part after it.
LocalPart(s) == SubSeq(s, 1, IndexOf(s, "@") - 1)
DomainPart(s) == SubSeq(s, IndexOf(s, "@") + 1, Len(s))

\* C18 as stated: an address with no @, an empty local part, an empty
\* domain, a domain without a dot, or two consecutive dots in the local
\* part is rejected with 'Email format is invalid'.
C18_Original ==
  (EmailChecked /\ arg.email.s # "") =>
    LET s == arg.email.s
    IN (\/ IndexOf(s, "@") = 0
        \/ LocalPart(s) = ""
        \/ DomainPart(s) = ""
        \/ IndexOf(DomainPart(s), ".") = 0
        \/ IndexOf(LocalPart(s), "..") > 0) =>
         Includes(ret.errors, "Email format is invalid")

Handled == fn = "handleError"

\* The three outcomes for anything but an AppError, and success = false.
OtherOutcomes(sanitized) ==
  /\ ~ret.success
  /\ (InstanceOfError(arg.error) /\ ~InstanceOfAppError(arg.error)) =>
       /\ ret.error.code = "INTERNAL_ERROR"
       /\ ret.error.message = "An unexpected error occurred"
       /\ ret.error.details.f.originalMessage =
            Str(IF sanitized THEN sanitizeErrorMessage(arg.error.message)
                ELSE arg.error.message)
  /\ ~InstanceOfError(arg.error) =>
       /\ ret.error.code = "INTERNAL_ERROR"
       /\ ret.error.message = "An unknown error occurred"
       /\ ret.error.details = Undefined

\* C19 as stated: an AppError yields its own code, message and details,
\* another Error INTERNAL_ERROR with 'An unexpected error occurred' and
\* its message as details.originalMessage, any other value INTERNAL_ERROR
\* with 'An unknown error occurred'; success is false.
C19_Original ==
  Handled =>
    /\ OtherOutcomes(FALSE)
    /\ InstanceOfAppError(arg.error) =>
         /\ ret.error.code = arg.error.code
         /\ ret.error.message = arg.error.message
         /\ ret.error.details = arg.error.details

\* C19 amended: the same three outcomes, with the message and the details
\* of an AppError and the originalMessage of another Error in the form
\* the sanitization of createErrorResponse gives them.
C19_HandleErrorOutcomes ==
  Handled =>
    /\ OtherOutcomes(TRUE)
    /\ InstanceOfAppError(arg.error) =>
         /\ ret.error.code = arg.error.code
         /\ ret.error.message = sanitizeErrorMessage(arg.error.message)
         /\ ret.error.details = sanitizeErrorDetails(arg.error.details)

\* A ValidationError whose message names a token: own code, masked
\* message.
C19_Witness ==
  /\ Handled
  /\ InstanceOfAppError(arg.error)
  /\ arg.error.class = "ValidationError"
  /\ arg.error.code = "VALIDATION_ERROR"
  /\ arg.error.message = "Invalid token: abc123"
  /\ ret.error.code = "VALIDATION_ERROR"
  /\ ret.error.message = "Invalid token=***"
  /\ ret.error.details = Obj([field |-> Str("test")])

Wrapped == fn = "wrapAsync" /\ ret.state # "pending"

\* C20: the promise of wrapAsync is never rejected; it is fulfilled with a
\* success response that carries fn's value exactly when fn fulfils, and
\* with the response handleError builds for the thrown value exactly when
\* fn rejects.
C20_WrapAsyncNeverRejects ==
  Wrapped =>
    /\ ret.state = "fulfilled"
    /\ ret.value.success <=> (arg.fn.state = "fulfilled")
    /\ arg.fn.state = "fulfilled" => ret.value.data = arg.fn.value
    /\ arg.fn.state = "rejected" =>
         \E now \in Clock : ret.value = handleError(arg.fn.reason, now)

\* fn rejected with a string and wrapAsync resolved to the error response.
C20_Witness ==
  /\ Wrapped
  /\ arg.fn = PromiseRejected(Str("String error"))
  /\ ret.state = "fulfilled"
  /\ ~ret.value.success
  /\ ret.value.error.message = "An unknown error occurred"

(***************************************************************************)
(* C21 to C24: the validators.                                             *)
(***************************************************************************)
MethodChecked == fn = "validateHttpMethod"

\* C21: validateHttpMethod accepts a string exactly when its upper-cased
\* form is one of the seven methods; an empty (falsy) value gives exactly
\* 'HTTP method is required', any other value that is no string exactly
\* 'HTTP method must be a string'.
C21_MethodWhitelist ==
  MethodChecked =>
    /\ arg.method.t = "string" =>
         (ret.isValid <=>
            ToUpperCase(arg.method.s) \in
              {"GET", "POST", "PUT", "DELETE", "PATCH", "HEAD", "OPTIONS"})
    /\ Falsy(arg.method) =>
         ret = [isValid |-> FALSE, errors |-> <<"HTTP method is required">>]
    /\ (~Falsy(arg.method) /\ arg.method.t # "string") =>
         ret = [isValid |-> FALSE, errors |-> <<"HTTP method must be a string">>]

\* A method written in mixed case is accepted.
C21_Witness ==
  /\ MethodChecked
  /\ arg.method = Str("pAtCh")
  /\ ret = [isValid |-> TRUE, errors |-> <<>>]

UrlChecked == fn = "validateUrl"

\* C22: validateUrl accepts a value only if it is a non-empty string that
\* parses as a URL, starts with 'https://' and has at most 2000
\* characters; a URL of scheme http gets 'URL must use HTTPS protocol', a
\* URL of more than 2000 characters 'URL is too long (max 2000
\* characters)', a string that does not parse 'URL format is invalid'.
C22_UrlRules ==
  UrlChecked =>
    /\ ret.isValid =>
         /\ arg.url.t = "string" /\ arg.url.s # ""
         /\ UrlParses(arg.url.s)
         /\ StartsWith(arg.url.s, "https://")
         /\ Len(arg.url.s) <= 2000
    /\ (arg.url.t = "string" /\ arg.url.s # "") =>
         /\ (UrlParses(arg.url.s) /\ StartsWith(arg.url.s, "http:")) =>
              (~ret.isValid /\ Includes(ret.errors, "URL must use HTTPS protocol"))
         /\ (UrlParses(arg.url.s) /\ Len(arg.url.s) > 2000) =>
              (~ret.isValid /\
               Includes(ret.errors, "URL is too long (max 2000 characters)"))
         /\ ~UrlParses(arg.url.s) =>
              ret = [isValid |-> FALSE, errors |-> <<"URL format is invalid">>]

\* An http URL of more than 2000 characters gets both errors.
C22_Witness ==
  /\ UrlChecked
  /\ arg.url = Str("http://api.example.com/" \o A2000)
  /\ ret.errors = <<"URL must use HTTPS protocol",
                    "URL is too long (max 2000 characters)">>

Combined == fn = "combineValidations"

\* The number of errors of the first k arguments.
RECURSIVE ErrorsBefore(_)
ErrorsBefore(k) ==
  IF k = 0 THEN 0 ELSE ErrorsBefore(k - 1) + Len(arg.validations[k].errors)

\* C23: the errors of combineValidations are the errors of its arguments,
\* argument after argument and each list in its own order, and the result
\* is valid exactly when every argument is valid.
C23_CombineConcatenates ==
  Combined =>
    /\ Len(ret.errors) = ErrorsBefore(Len(arg.validations))
    /\ \A k \in 1..Len(arg.validations) :
         \A j \in 1..Len(arg.validations[k].errors) :
           ret.errors[ErrorsBefore(k - 1) + j] = arg.validations[k].errors[j]
    /\ ret.isValid <=>
         \A k \in 1..Len(arg.validations) : arg.validations[k].isValid

\* A valid result between two invalid ones.
C23_Witness ==
  /\ Combined
  /\ Len(arg.validations) = 3
  /\ arg.validations[1].errors = <<"Error 2", "Error 3">>
  /\ arg.validations[2].isValid
  /\ arg.validations[3].errors = <<"Error 1">>
  /\ ret = [isValid |-> FALSE, errors |-> <<"Error 2", "Error 3", "Error 1">>]

RequestChecked == fn = "validateApiRequest"

\* The errors the check of one field of the request has to report.
FieldErrors(field) ==
  LET v == Get(arg.request, field)
  IN IF field \in {"name", "method", "url"} /\ Falsy(v)
       THEN << (CASE field = "name" -> "API name is required"
                  [] field = "method" -> "HTTP method is required"
                  [] field = "url" -> "URL is required") >>
     ELSE IF Falsy(v) THEN <<>>
     ELSE CASE field = "name" -> validateStringLength(v, "name", 1, MaxNameLength).errors
            [] field = "method" -> validateHttpMethod(v).errors
            [] field = "url" -> validateUrl(v).errors
            [] field = "authConfig" -> validateAuthConfig(v).errors
            [] field = "headers" ->
                 IF v.t = "string" THEN validateJson(v, "headers").errors
                 ELSE <<>>

CheckedFields == <<"name", "method", "url", "authConfig", "headers">>

\* C24: validateApiRequest reports the error of every missing required
\* field and all the errors of every field check that fails, in one
\* result and nothing else; an invalid method, an http URL and a bearer
\* auth without token together give at least three errors.
C24_ErrorsAccumulate ==
  RequestChecked =>
    /\ \A k \in 1..Len(CheckedFields) :
         \A j \in 1..Len(FieldErrors(CheckedFields[k])) :
           Includes(ret.errors, FieldErrors(CheckedFields[k])[j])
    /\ Len(ret.errors) =
         Len(FieldErrors("name")) + Len(FieldErrors("method"))
         + Len(FieldErrors("url")) + Len(FieldErrors("authConfig"))
         + Len(FieldErrors("headers"))
    /\ (/\ Get(arg.request, "method") = Str("INVALID_METHOD")
        /\ Get(arg.request, "url") = Str("http://insecure.com")
        /\ Get(arg.request, "authConfig") = Obj([type |-> Str("bearer")])) =>
         Len(ret.errors) >= 3

\* The request of the test: three field checks fail, three errors.
C24_Witness ==
  /\ RequestChecked
  /\ arg.request.f.name = Str("Test API")
  /\ arg.request.f.headers = Undefined
  /\ ret.errors =
       << "HTTP method must be one of: GET, POST, PUT, DELETE, PATCH, HEAD, OPTIONS",
          "URL must use HTTPS protocol",
          "Bearer token is required for bearer auth" >>

(***************************************************************************)
(* C25 and C26: the connection lock.                                       *)
(***************************************************************************)
\* The establishConnection calls in flight.
InFlight == { p \in 1..Len(promises) : promises[p] = "pending" }

\* C25: at most one establishConnection call is in flight, and it is the
\* one connectionLock holds, so that a caller arriving meanwhile waits for
\* it.
C25_OneConnectionAttempt ==
  /\ Cardinality(InFlight) <= 1
  /\ \A p \in InFlight : connectionLock = p

\* Every caller waits for the same connection attempt, started by one of
\* them.
C25_Witness ==
  /\ promises = <<"pending">>
  /\ \A c \in 1..MaxCallers : callers[c].pc = "await" /\ callers[c].on = 1
  /\ Cardinality({ c \in 1..MaxCallers : callers[c].owner }) = 1

\* C26 as stated: once establishConnection has failed and the caller that
\* started it has resumed, connectionLock no longer holds the failed
\* promise, and a caller never waits on a promise that had already failed
\* when it called.
C26_Original ==
  \A p \in 1..Len(promises) :
    (/\ promises[p] = "rejected"
     /\ ~\E c \in 1..MaxCallers :
           callers[c].pc = "await" /\ callers[c].on = p /\ callers[c].owner) =>
      connectionLock # p

(***************************************************************************)
(* C27: how an import transaction ends.                                    *)
(***************************************************************************)
\* How many times the call has issued the statement.
TimesIssued(stmt) == Cardinality({ k \in 1..Len(stmts) : stmts[k] = stmt })

\* C27 as stated: ROLLBACK is issued at most once and never together with
\* COMMIT, and once the handle of a begun transaction is released exactly
\* one COMMIT or ROLLBACK was issued.
C27_Original ==
  /\ TimesIssued("ROLLBACK") <= 1
  /\ ~(TimesIssued("COMMIT") >= 1 /\ TimesIssued("ROLLBACK") >= 1)
  /\ (pc = "done" /\ TimesIssued("BEGIN") = 1 /\ error # "BeginFailed") =>
       TimesIssued("COMMIT") + TimesIssued("ROLLBACK") = 1

(***************************************************************************)
(* C28: the shape of an ImportResult.                                      *)
(***************************************************************************)
\* The call returned without touching the store and without being
\* cancelled: a batch-fatal abort (ParseError or malformed variable map).
BatchAborted ==
  result.kind = "returned" /\ cancelled = "none" /\ stmts = <<>>

\* Total and counts agree with the outcome sequence, every outcome is
\* final, and Imported occurs only in a Committed result.
CountsAgree ==
  /\ result.total = Len(result.outcomes)
  /\ result.imported + result.skipped + result.failed = result.total
  /\ \A k \in 1..Len(result.outcomes) :
       /\ result.outcomes[k].kind \in {"Imported", "Skipped", "Failed"}
       /\ result.outcomes[k].kind = "Imported" => result.status = "Committed"

\* C28 as stated: every ImportResult has one outcome per RequestItem.
C28_Original ==
  result.kind = "returned" =>
    /\ Len(result.outcomes) = N
    /\ CountsAgree

\* C28: in every ImportResult total is the length of the outcome sequence,
\* the three counts sum to total and Imported occurs only when status is
\* Committed; the sequence has the outcome of each RequestItem in document
\* order, except after a batch-fatal abort, where it is the single Failed
\* outcome describing the abort.
C28_ResultShape ==
  result.kind = "returned" =>
    /\ CountsAgree
    /\ IF BatchAborted
         THEN /\ Len(result.outcomes) = 1
              /\ result.outcomes[1].kind = "Failed"
              /\ result.status = "RolledBack"
         ELSE /\ Len(result.outcomes) = N
              /\ result.outcomes = outcomes

\* A committed result over several items with both kinds of outcome.
C28_Witness ==
  /\ result.kind = "returned" /\ result.status = "Committed"
  /\ N >= 2 /\ result.total = N
  /\ result.failed >= 1 /\ result.imported >= 1

(***************************************************************************)
(* C29: isValid and errors agree.                                          *)
(***************************************************************************)
Validators ==
  {"validateHttpMethod", "validateUrl", "validateStringLength",
   "validateNumericRange", "validateDatabaseId", "validateEmail",
   "validateJson", "validateSearchQuery", "validatePaginationParams",
   "validateAuthConfig", "validateApiRequest", "combineValidations"}

\* C29: whatever the input, the result of a validator has isValid true
\* exactly when its list of errors is empty.
C29_ValidIffNoErrors ==
  fn \in Validators => (ret.isValid <=> ret.errors = <<>>)

\* validatePaginationParams reports the errors of both parameters.
C29_Witness ==
  /\ fn = "validatePaginationParams"
  /\ arg.page = Num(0) /\ arg.limit = Num(1001)
  /\ ret = [isValid |-> FALSE,
            errors |-> <<"page must be at least 1",
                         "limit must not exceed 1000">>]

(***************************************************************************)
(* C30: sanitizeInput.                                                     *)
(***************************************************************************)
Sanitized == fn = "sanitizeInput"

\* The string has none of the things sanitizeInput removes.
Clean(s) ==
  /\ \A i \in 1..Len(s) : CharAt(s, i) \notin {"<", ">", "'", "\""}
  /\ ~\E i \in 1..Len(s) :
        /\ i + 10 <= Len(s)
        /\ ToLowerCase(SubSeq(s, i, i + 10)) = "javascript:"
  /\ ~\E i \in 1..Len(s) : OnHandlerEnd(s, i) > 0

\* C30 as stated: the output of sanitizeInput for a string has no '<',
\* '>', quote, 'javascript:' or on<word>= left and is unchanged by a
\* second pass; for a value that is no string the output is ''.
C30_Original ==
  Sanitized =>
    IF arg.input.t = "string"
      THEN Clean(ret) /\ sanitizeInput(Str(ret)) = ret
      ELSE ret = ""

====
